---- MODULE Spec2Model ----
(***************************************************************************)
(* treesize: the parallel scanner (crates/core/src/scanner.rs), its        *)
(* message channel, the single-threaded tree assembly build_tree, and the  *)
(* application state with its search filter (crates/app/src/state.rs,      *)
(* poll_scan of crates/app/src/ui.rs).                                     *)
(*                                                                         *)
(* Eight specifications share the variables:                               *)
(*   Spec     one run of Scanner::scan with NumWorkers walker workers, the *)
(*            statements of the worker closure interleaved at the level of *)
(*            its accesses to shared state;                                *)
(*   FairSpec the same run over a smaller file system, the threads         *)
(*            scheduled fairly;                                            *)
(*   SpecBT   build_tree and SearchFilter::build as pure functions,        *)
(*            applied to every root, file list and needle of a bounded     *)
(*            universe;                                                    *)
(*   SpecApp  the handlers of AppState and poll_scan over up to MaxScans   *)
(*            scans, each scanner thread taken at the level of the         *)
(*            messages it sends;                                           *)
(*   SpecCancel the same handlers with cancel_scan, the scanner threads    *)
(*            reading the cancel flag they share at each entry;            *)
(*   SpecUi   the handlers of AppState with the clicks of ui.rs that set    *)
(*            and clear the node ids, and the delete confirmation;         *)
(*   SpecSort sort_node_ids and sort_file_lists as pure functions, applied *)
(*            to every sequence of node ids of a bounded universe under    *)
(*            every sort key;                                              *)
(*   SpecTM   squarify as a pure function, applied to every weight list    *)
(*            and rectangle of a bounded universe.                         *)
(***************************************************************************)
EXTENDS Integers, Sequences, FiniteSets, TLC

(***************************************************************************)
(* Bounds of the model.                                                    *)
(***************************************************************************)
\* walker worker threads (num_cpus::get() in the source)
NumWorkers == 2
\* longest file list handed to build_tree in SpecBT
MaxFiles == 3
\* stand-in for u128::MAX, the width of the byte total and of TreeNode.size
SizeMax == 250
\* stand-in for u64::MAX, the width of TreeNode.file_count
CountMax == 2
\* scans started by the application in SpecApp
MaxScans == 2

(***************************************************************************)
(* Paths.  A path is the sequence of its components, an absolute path      *)
(* starting with the root component "/".                                   *)
(***************************************************************************)
\* Option<NodeId>::None
None == -1

\* Path::parent() is Some(..): false for "/" and for the empty path
HasParent(path) == path # <<>> /\ path # <<"/">>

\* Path::parent(): the path without its last component
Parent(path) == SubSeq(path, 1, Len(path) - 1)

\* path.parent().unwrap_or(root)
ParentOr(path, root) == IF HasParent(path) THEN Parent(path) ELSE root

\* Path::file_name(): None for "/" and for the empty path
HasFileName(path) == path # <<>> /\ path # <<"/">>

\* the name ensure_dir gives a directory node: file_name, else the path text
DirName(path) ==
    IF HasFileName(path) THEN path[Len(path)]
    ELSE IF path = <<>> THEN "" ELSE "/"

\* the name build_tree gives a file node: file_name, else ""
FileName(path) == IF HasFileName(path) THEN path[Len(path)] ELSE ""

\* u128/u64 saturating_add at width max
SatAdd(a, b, max) == IF a + b > max THEN max ELSE a + b

(***************************************************************************)
(* build_tree.  The arena is a sequence of nodes, node id i at index i+1;  *)
(* id_by_path is a function from paths to node ids.                        *)
(***************************************************************************)
\* Tree::default(): the value of a tree that has not been built
NoTree == [root |-> 0, nodes |-> <<>>]

\* the value of a SearchFilter that has not been built
NoFilter == [direct_matches |-> <<>>, subtree_matches |-> <<>>]

\* HashMap::new()
EmptyMap == [p \in {} |-> 0]

TreeNode(id, parent, path, name, kind, size, file_count) ==
    [id |-> id, parent |-> parent, path |-> path, name |-> name,
     kind |-> kind, size |-> size, file_count |-> file_count,
     children |-> <<>>]

\* nodes.get_mut(pid).children.push(id), skipped when pid is out of range
PushChild(nodes, pid, id) ==
    IF pid >= 0 /\ pid < Len(nodes)
    THEN [nodes EXCEPT ![pid + 1].children = Append(@, id)]
    ELSE nodes

\* F applied to the value of e, e evaluated once
With(e, F(_)) == CHOOSE r \in {F(x) : x \in {e}} : TRUE

\* new_dir without the id_by_path.insert of the new directory
new_dir_unrecorded(path, pst) ==
    LET parent_id == pst.ret
        id == Len(pst.nodes)
        pushed == Append(pst.nodes,
                     TreeNode(id, parent_id, path, DirName(path), "Dir", 0, 0))
    IN  [nodes |-> IF parent_id # None
                   THEN PushChild(pushed, parent_id, id)
                   ELSE pushed,
         id_by_path |-> pst.id_by_path,
         ret |-> id]

\* new_dir without the link into the parent's children
new_dir_unlinked(path, pst) ==
    [nodes |-> Append(pst.nodes,
                  TreeNode(Len(pst.nodes), pst.ret, path, DirName(path), "Dir", 0, 0)),
     id_by_path |-> (path :> Len(pst.nodes)) @@ pst.id_by_path,
     ret |-> Len(pst.nodes)]

\* the tail of ensure_dir once the parent is ensured: pst is the state after
\* it, pst.ret the parent's id (None for the root)
new_dir(path, pst) ==
    LET parent_id == pst.ret
        id == Len(pst.nodes)
        pushed == Append(pst.nodes,
                     TreeNode(id, parent_id, path, DirName(path), "Dir", 0, 0))
    IN  [nodes |-> IF parent_id # None
                   THEN PushChild(pushed, parent_id, id)
                   ELSE pushed,
         id_by_path |-> (path :> id) @@ pst.id_by_path,
         ret |-> id]

RECURSIVE ensure_dir(_, _, _)

\* ensure_dir that pushes the node of path before it ensures the parent
ensure_dir_child_first(path, root, st) ==
    IF path \in DOMAIN st.id_by_path
    THEN [st EXCEPT !.ret = st.id_by_path[path]]
    ELSE LET id == Len(st.nodes)
             st1 == [nodes |-> Append(st.nodes,
                                  TreeNode(id, None, path, DirName(path), "Dir", 0, 0)),
                     id_by_path |-> (path :> id) @@ st.id_by_path,
                     ret |-> id]
         IN  IF path = root THEN st1
             ELSE With(ensure_dir(ParentOr(path, root), root, st1),
                       LAMBDA pst :
                          [nodes |-> PushChild([pst.nodes EXCEPT ![id + 1].parent = pst.ret],
                                               pst.ret, id),
                           id_by_path |-> pst.id_by_path,
                           ret |-> id])

\* st = [nodes, id_by_path, ret]; ret is the NodeId returned
ensure_dir(path, root, st) ==
    IF path \in DOMAIN st.id_by_path
    THEN [st EXCEPT !.ret = st.id_by_path[path]]
    ELSE With(IF path = root
              THEN [st EXCEPT !.ret = None]
              ELSE ensure_dir(ParentOr(path, root), root, st),
              LAMBDA pst : new_dir(path, pst))

\* the body of the while loop with wrapping additions
add_to_dir_wrapping(nodes, id_by_path, dir, sz) ==
    LET did == IF dir \in DOMAIN id_by_path THEN id_by_path[dir] ELSE None
    IN  IF did # None /\ did < Len(nodes)
        THEN [nodes EXCEPT
                ![did + 1].size = (@ + sz) % (SizeMax + 1),
                ![did + 1].file_count = (@ + 1) % (CountMax + 1)]
        ELSE nodes

\* the body of the while loop: dir gets sz and one more file
add_to_dir(nodes, id_by_path, dir, sz) ==
    LET did == IF dir \in DOMAIN id_by_path THEN id_by_path[dir] ELSE None
    IN  IF did # None /\ did < Len(nodes)
        THEN [nodes EXCEPT
                ![did + 1].size = SatAdd(@, sz, SizeMax),
                ![did + 1].file_count = SatAdd(@, 1, CountMax)]
        ELSE nodes

\* propagate that stops after the immediate parent directory
propagate_parent_only(nodes, id_by_path, dir, root, sz) ==
    add_to_dir(nodes, id_by_path, dir, sz)

\* the while loop that adds sz and one file to dir and its ancestors up to root
RECURSIVE propagate(_, _, _, _, _)
propagate(nodes, id_by_path, dir, root, sz) ==
    With(add_to_dir(nodes, id_by_path, dir, sz),
         LAMBDA added :
            IF dir = root THEN added
            ELSE IF HasParent(dir)
                 THEN propagate(added, id_by_path, Parent(dir), root, sz)
                 ELSE added)

\* push_file_node that numbers the file nodes from the length after the push
push_file_node_id_after_push(dst, file) ==
    LET pid == dst.ret
        id == Len(dst.nodes) + 1
    IN  PushChild(Append(dst.nodes,
                      TreeNode(id, pid, file.path, FileName(file.path), "File",
                               file.size, 1)),
                  pid, id)

\* push_file_node that hangs every file under the root node
push_file_node_under_root(dst, file) ==
    PushChild(Append(dst.nodes,
                  TreeNode(Len(dst.nodes), 0, file.path, FileName(file.path),
                           "File", file.size, 1)),
              0, Len(dst.nodes))

\* the file node pushed and linked under pid, dst the state after ensure_dir
push_file_node(dst, file) ==
    LET pid == dst.ret
        id == Len(dst.nodes)
    IN  PushChild(Append(dst.nodes,
                      TreeNode(id, pid, file.path, FileName(file.path), "File",
                               file.size, 1)),
                  pid, id)

\* add_file that propagates through the map as it was before ensure_dir
add_file_stale_map(st, root, file) ==
    With(ensure_dir(ParentOr(file.path, root), root, st),
         LAMBDA dst :
            With(push_file_node(dst, file),
                 LAMBDA linked :
                    [nodes |-> propagate(linked, st.id_by_path,
                                         ParentOr(file.path, root), root,
                                         file.size),
                     id_by_path |-> dst.id_by_path,
                     ret |-> dst.ret]))

\* one iteration of the loop over files
add_file(st, root, file) ==
    With(ensure_dir(ParentOr(file.path, root), root, st),
         LAMBDA dst :
            With(push_file_node(dst, file),
                 LAMBDA linked :
                    [nodes |-> propagate(linked, dst.id_by_path,
                                         ParentOr(file.path, root), root,
                                         file.size),
                     id_by_path |-> dst.id_by_path,
                     ret |-> dst.ret]))

\* the loop over files, in list order
RECURSIVE add_files(_, _, _)
add_files(st, root, files) ==
    IF files = <<>> THEN st
    ELSE With(add_file(st, root, Head(files)),
              LAMBDA nst : add_files(nst, root, Tail(files)))

\* build_tree that creates the root only when the first file needs it
build_tree_lazy_root(root, files) ==
    [root |-> 0,
     nodes |-> add_files([nodes |-> <<>>, id_by_path |-> EmptyMap, ret |-> None],
                         root, files).nodes]

build_tree(root, files) ==
    With(ensure_dir(root, root,
                    [nodes |-> <<>>, id_by_path |-> EmptyMap, ret |-> None]),
         LAMBDA st0 : [root |-> st0.ret, nodes |-> add_files(st0, root, files).nodes])

(***************************************************************************)
(* Text.  A string is the sequence of its characters; Chars gives the text *)
(* of a path component of the model.                                       *)
(***************************************************************************)
UpperCase == <<"A", "B", "C", "D", "E", "F", "G", "H", "I", "J", "K", "L", "M",
               "N", "O", "P", "Q", "R", "S", "T", "U", "V", "W", "X", "Y", "Z">>

LowerCase == <<"a", "b", "c", "d", "e", "f", "g", "h", "i", "j", "k", "l", "m",
               "n", "o", "p", "q", "r", "s", "t", "u", "v", "w", "x", "y", "z">>

Chars(name) ==
    CASE name = "" -> <<>>
      [] name = "/" -> <<"/">>
      [] name = "root" -> <<"r", "o", "o", "t">>
      [] name = "sub" -> <<"s", "u", "b">>
      [] name = "deep" -> <<"d", "e", "e", "p">>
      [] name = "etc" -> <<"e", "t", "c">>
      [] name = "a.txt" -> <<"a", ".", "t", "x", "t">>
      [] name = "b.txt" -> <<"b", ".", "t", "x", "t">>
      [] name = "Sub" -> <<"S", "u", "b">>
      [] name = "B.TXT" -> <<"B", ".", "T", "X", "T">>
      [] name = "locked" -> <<"l", "o", "c", "k", "e", "d">>

\* Path::to_string_lossy(): the components joined by the separator
RECURSIVE to_string_lossy(_)
to_string_lossy(path) ==
    IF path = <<>> THEN <<>>
    ELSE IF Len(path) = 1 THEN Chars(path[1])
    ELSE With(to_string_lossy(SubSeq(path, 1, Len(path) - 1)),
              LAMBDA front :
                 (IF front = <<"/">> THEN front ELSE front \o <<"/">>)
                    \o Chars(path[Len(path)]))

\* u8::to_ascii_lowercase on one character
lower_char(c) ==
    IF \E k \in DOMAIN UpperCase : UpperCase[k] = c
    THEN LowerCase[CHOOSE k \in DOMAIN UpperCase : UpperCase[k] = c]
    ELSE c

\* str::to_ascii_lowercase
to_ascii_lowercase(t) == [k \in DOMAIN t |-> lower_char(t[k])]

\* str::contains(&pat): pat occurs in hay as a substring
contains(hay, pat) ==
    \E k \in 0..(Len(hay) - Len(pat)) : SubSeq(hay, k + 1, k + Len(pat)) = pat

(***************************************************************************)
(* SearchFilter::build (crates/app/src/state.rs).  The two Vec<bool> are   *)
(* sequences, the flag of node id i at index i+1.                          *)
(***************************************************************************)
\* the body of the loop of lines 47-54 for one node
direct_match(node, needle_lc) ==
    \/ contains(to_ascii_lowercase(Chars(node.name)), needle_lc)
    \/ contains(to_ascii_lowercase(to_string_lossy(node.path)), needle_lc)

RECURSIVE dfs(_, _, _, _)
RECURSIVE dfs_children(_, _, _, _, _)

\* lines 61-65: the loop over node.children; the result carries the array
\* after the recursive calls and the value of any
dfs_children(tree, direct, subtree, children, any) ==
    IF children = <<>> THEN [subtree |-> subtree, any |-> any]
    ELSE With(dfs(tree, direct, subtree, Head(children)),
              LAMBDA r : dfs_children(tree, direct, r.subtree, Tail(children),
                                      any \/ r.any))

\* dfs that stores the node's own direct flag at line 66
dfs_stores_direct(tree, direct, subtree, id) ==
    With(dfs_children(tree, direct, subtree, tree.nodes[id + 1].children,
                      direct[id + 1]),
         LAMBDA r : [subtree |-> [r.subtree EXCEPT ![id + 1] = direct[id + 1]],
                     any |-> r.any])

\* lines 57-68
dfs(tree, direct, subtree, id) ==
    With(dfs_children(tree, direct, subtree, tree.nodes[id + 1].children,
                      direct[id + 1]),
         LAMBDA r : [subtree |-> [r.subtree EXCEPT ![id + 1] = r.any],
                     any |-> r.any])

\* lines 42-77
SearchFilter_build(needle, tree) ==
    LET needle_lc == to_ascii_lowercase(needle)
        n == Len(tree.nodes)
        direct == [i \in 1..n |-> direct_match(tree.nodes[i], needle_lc)]
        subtree == [i \in 1..n |-> FALSE]
    IN  [direct_matches |-> direct,
         subtree_matches |-> IF tree.nodes # <<>>
                             THEN dfs(tree, direct, subtree, tree.root).subtree
                             ELSE subtree]

(***************************************************************************)
(* The scanned file system: what the parallel walker hands to the visitor  *)
(* closure.  dir is the entry whose listing yields this entry (0 for the   *)
(* walk root); an "err" entry is an Err(..) result of the walk.  Spec      *)
(* scans ScanFS, FairSpec the smaller SmallFS.                             *)
(***************************************************************************)
ScanRoot == <<"/", "root">>

ScanFS ==
    << [kind |-> "dir",  path |-> ScanRoot,                        size |-> 0,   dir |-> 0],
       [kind |-> "file", path |-> ScanRoot \o <<"a.txt">>,         size |-> 100, dir |-> 1],
       [kind |-> "dir",  path |-> ScanRoot \o <<"sub">>,           size |-> 0,   dir |-> 1],
       [kind |-> "file", path |-> ScanRoot \o <<"sub", "b.txt">>,  size |-> 50,  dir |-> 3],
       [kind |-> "err",  path |-> ScanRoot \o <<"sub", "locked">>, size |-> 0,   dir |-> 3] >>

SmallFS ==
    << [kind |-> "dir",  path |-> ScanRoot,                   size |-> 0,  dir |-> 0],
       [kind |-> "file", path |-> ScanRoot \o <<"a.txt">>,    size |-> 50, dir |-> 1],
       [kind |-> "err",  path |-> ScanRoot \o <<"locked">>,   size |-> 0,  dir |-> 1] >>

Workers == 1..NumWorkers

\* the thread of Scanner::scan itself, as a sender on the channel
MainThread == 0

(***************************************************************************)
(* The inputs of SpecBT: roots and file paths below them, as the walker    *)
(* produces them.                                                          *)
(***************************************************************************)
Roots == {<<"/", "root">>, <<"/">>, <<"root">>}

RelDirs == {<<>>, <<"sub">>, <<"sub", "deep">>, <<"etc">>}

FileNames == {"a.txt", "b.txt"}

FileSizes == {50, 100}

FileRecs(root) ==
    {[path |-> root \o d \o <<f>>, size |-> s] :
        d \in RelDirs, f \in FileNames, s \in FileSizes}

\* the needles given to SearchFilter::build in SpecBT: a letter, a text in
\* capitals that spans two components of a path, a letter no name has, and
\* the empty needle
Needles == {<<"a">>, <<"T", "/", "S">>, <<"z">>, <<>>}

\* the lists of at most MaxFiles files with distinct paths
FileLists(root) ==
    UNION {{l \in [1..n -> FileRecs(root)] :
              \A i, j \in 1..n : i # j => l[i].path # l[j].path} :
           n \in 0..MaxFiles}

VARIABLES
    fs,             \* the entries of the scanned file system
    cancel,         \* AppState.cancel / Scanner.cancel
    paused,         \* AppState.paused / Scanner.paused
    discovered,     \* AtomicU64
    scanned,        \* AtomicU64
    bytes,          \* the u128 behind the bytes mutex
    bytes_lock,     \* holder of the bytes mutex, 0 when free
    files,          \* the list behind the files mutex
    files_lock,     \* holder of the files mutex, 0 when free
    tx,             \* the messages sent on the channel, in channel order
    tx_src,         \* for each message of tx: the sending thread, its entry and position
    taken,          \* entries the walker has handed to a visitor call
    listed,         \* directories whose visitor call returned Continue
    quit_now,       \* the walker's quit flag, set by a Quit return
    pc,             \* per worker: position in the visitor closure
    cur,            \* per worker: the entry of the current visitor call
    sz,             \* per worker: local sz
    b,              \* per worker: local b of the metadata Err arm
    m_scanned,      \* per worker: scanned.load() evaluated for the message
    m_discovered,   \* per worker: discovered.load() evaluated for the message
    ret,            \* per worker: source line of the closure's Quit return, 0 if none
    started,        \* entries whose visitor call passed the cancel check
    in_flight,      \* per worker: the entry past the cancel check when cancel was set
    cancel_at,      \* Len(tx) when cancel was set, -1 before
    scan_pc,        \* Scanner::scan: "walking" or "done" ("off" in SpecBT)
    bt_pc,          \* SpecBT: "input", "built" or "searched" ("off" in Spec)
    bt_root,        \* SpecBT: the root given to build_tree
    bt_files,       \* SpecBT: the file list given to build_tree
    bt_tree,        \* SpecBT: the tree returned
    bt_needle,      \* SpecBT: the needle given to SearchFilter::build
    bt_filter,      \* SpecBT: the SearchFilter returned
    bt_counts,      \* SpecBT: the vector compute_dir_counts returned
    scans,          \* SpecApp: the scanner threads spawned, in spawn order
    scan_rx,        \* AppState.scan_rx: None, or the scan whose receiver it holds
    rx_queue,       \* the messages waiting in the channel of that receiver
    progress_bytes,
    progress_files,
    progress_discovered,
    sort,           \* AppState.sort
    search,         \* AppState.search, the text of the search box
    tree,           \* AppState.tree
    current_dir,
    selected,
    pending_delete,
    pending_properties,
    removed,        \* the paths handed to trash::delete so far, in order
    search_filter,  \* AppState.search_filter
    file_nodes,
    filtered_file_nodes,
    built_for,      \* the needle and tree search_filter was built from
    rebuilt,        \* the last step called SearchFilter::build
    srt_pc,         \* SpecSort: "input" or "sorted" ("off" elsewhere)
    srt_tree,       \* SpecSort: the tree whose nodes are sorted
    srt_nodes,      \* SpecSort: the sequence of node ids given to the sort
    srt_key,        \* SpecSort: the sort key
    srt_out,        \* SpecSort: the sequence sort_node_ids leaves
    srt_lists,      \* SpecSort: the two lists sort_file_lists leaves
    tm_pc,          \* SpecTM: "input" or "laid_out" ("off" elsewhere)
    tm_weights,     \* SpecTM: the (id, weight) list given to squarify
    tm_area,        \* SpecTM: the rectangle given to squarify
    tm_out          \* SpecTM: the items returned

EntryIds == 1..Len(fs)

scan_vars == <<fs, cancel, paused, discovered, scanned, bytes, bytes_lock, files,
               files_lock, tx, tx_src, taken, listed, quit_now, pc, cur, sz, b,
               m_scanned, m_discovered, ret, started, in_flight, cancel_at,
               scan_pc>>

bt_vars == <<bt_pc, bt_root, bt_files, bt_tree, bt_needle, bt_filter, bt_counts>>

chan_vars == <<scans, scan_rx, rx_queue>>

progress_vars == <<progress_bytes, progress_files, progress_discovered>>

id_vars == <<current_dir, selected, pending_delete, pending_properties>>

\* the node ids and the paths handed to trash::delete so far
sel_vars == <<id_vars, removed>>

search_vars == <<search_filter, file_nodes, filtered_file_nodes, built_for>>

app_vars == <<chan_vars, progress_vars, sort, search, tree, sel_vars,
              search_vars, rebuilt>>

srt_vars == <<srt_pc, srt_tree, srt_nodes, srt_key, srt_out, srt_lists>>

tm_vars == <<tm_pc, tm_weights, tm_area, tm_out>>

fn_vars == <<srt_vars, tm_vars>>

vars == <<scan_vars, bt_vars, app_vars, fn_vars>>

\* what no step of a scan changes
fixed_vars == <<fs, bt_vars, app_vars, fn_vars>>

\* what no step of SpecApp changes but the two flags
scan_rest == <<fs, discovered, scanned, bytes, bytes_lock, files, files_lock,
               tx, tx_src, taken, listed, quit_now, pc, cur, sz, b, m_scanned,
               m_discovered, ret, started, in_flight, cancel_at, scan_pc>>

flag_vars == <<cancel, paused, in_flight, cancel_at>>

shared_vars == <<discovered, scanned, bytes, bytes_lock, files, files_lock>>

walker_vars == <<taken, listed, quit_now>>

local_vars == <<sz, b, m_scanned, m_discovered>>

(***************************************************************************)
(* Initial states.                                                         *)
(***************************************************************************)
ScanInit(phase, entries) ==
    /\ fs = entries
    /\ cancel = FALSE
    /\ paused = FALSE
    /\ discovered = 0
    /\ scanned = 0
    /\ bytes = 0
    /\ bytes_lock = 0
    /\ files = <<>>
    /\ files_lock = 0
    /\ tx = <<>>
    /\ tx_src = <<>>
    /\ taken = {}
    /\ listed = {}
    /\ quit_now = FALSE
    /\ pc = [w \in Workers |-> "idle"]
    /\ cur = [w \in Workers |-> 0]
    /\ sz = [w \in Workers |-> 0]
    /\ b = [w \in Workers |-> 0]
    /\ m_scanned = [w \in Workers |-> 0]
    /\ m_discovered = [w \in Workers |-> 0]
    /\ ret = [w \in Workers |-> 0]
    /\ started = {}
    /\ in_flight = [w \in Workers |-> 0]
    /\ cancel_at = -1
    /\ scan_pc = phase

\* Option::None and Option::Some(v) of a tree or a filter
NoneOpt == [some |-> FALSE]

Some(v) == [some |-> TRUE, val |-> v]

\* no sort and no layout is under way
FnOff ==
    /\ srt_pc = "off"
    /\ srt_tree = NoTree
    /\ srt_nodes = <<>>
    /\ srt_key = "Size"
    /\ srt_out = <<>>
    /\ srt_lists = [file_nodes |-> <<>>, filtered_file_nodes |-> <<>>]
    /\ tm_pc = "off"
    /\ tm_weights = <<>>
    /\ tm_area = [x |-> 0, y |-> 0, w |-> 0, h |-> 0]
    /\ tm_out = <<>>

\* AppState::new()
AppInit ==
    /\ scans = <<>>
    /\ scan_rx = None
    /\ rx_queue = <<>>
    /\ progress_bytes = 0
    /\ progress_files = 0
    /\ progress_discovered = 0
    /\ sort = "Size"
    /\ search = <<>>
    /\ tree = NoneOpt
    /\ current_dir = None
    /\ selected = None
    /\ pending_delete = None
    /\ pending_properties = None
    /\ removed = <<>>
    /\ search_filter = NoneOpt
    /\ file_nodes = <<>>
    /\ filtered_file_nodes = <<>>
    /\ built_for = NoneOpt
    /\ rebuilt = FALSE

Init ==
    /\ AppInit
    /\ ScanInit("walking", ScanFS)
    /\ bt_pc = "off"
    /\ bt_root = <<>>
    /\ bt_files = <<>>
    /\ bt_tree = NoTree
    /\ bt_needle = <<>>
    /\ bt_filter = NoFilter
    /\ bt_counts = <<>>
    /\ FnOff

InitFair ==
    /\ AppInit
    /\ ScanInit("walking", SmallFS)
    /\ bt_pc = "off"
    /\ bt_root = <<>>
    /\ bt_files = <<>>
    /\ bt_tree = NoTree
    /\ bt_needle = <<>>
    /\ bt_filter = NoFilter
    /\ bt_counts = <<>>
    /\ FnOff

InitApp ==
    /\ AppInit
    /\ ScanInit("off", ScanFS)
    /\ bt_pc = "off"
    /\ bt_root = <<>>
    /\ bt_files = <<>>
    /\ bt_tree = NoTree
    /\ bt_needle = <<>>
    /\ bt_filter = NoFilter
    /\ bt_counts = <<>>
    /\ FnOff

InitBT ==
    /\ AppInit
    /\ ScanInit("off", ScanFS)
    /\ bt_pc = "input"
    /\ bt_root \in Roots
    /\ bt_files \in FileLists(bt_root)
    /\ bt_tree = NoTree
    /\ bt_needle = <<>>
    /\ bt_filter = NoFilter
    /\ bt_counts = <<>>
    /\ FnOff

(***************************************************************************)
(* The channel.                                                            *)
(***************************************************************************)
Progress(s, d, by) == [type |-> "Progress", scanned |-> s, discovered |-> d, bytes |-> by]

File(path, by) == [type |-> "File", path |-> path, bytes |-> by]

Done(t) == [type |-> "Done", tree |-> t]

Error(text) == [type |-> "Error", text |-> text]

\* tx.send(msg) by thread w during its visitor call for entry e; tx_src keeps
\* the position of the closure the send was made from
Send(msg, w, e) ==
    /\ tx' = Append(tx, msg)
    /\ tx_src' = Append(tx_src, [worker |-> w, entry |-> e,
                                 at |-> IF w \in Workers THEN pc[w] ELSE "assemble"])

(***************************************************************************)
(* The flags, set by the application while the scan runs.                  *)
(***************************************************************************)
\* positions of the closure past the cancel check of the current entry
Processing ==
    {"match_entry", "metadata", "lock_bytes", "ok_load_scanned",
     "ok_load_discovered", "ok_send", "unlock_bytes", "send_file",
     "lock_files", "push_file", "err_read_bytes", "err_load_scanned",
     "err_load_discovered", "err_send"}

cancel_scan ==
    /\ cancel' = TRUE
    /\ in_flight' = IF cancel THEN in_flight
                    ELSE [w \in Workers |-> IF pc[w] \in Processing THEN cur[w] ELSE 0]
    /\ cancel_at' = IF cancel THEN cancel_at ELSE Len(tx)
    /\ UNCHANGED <<paused, shared_vars, tx, tx_src, walker_vars, pc, cur,
                   local_vars, ret, started, scan_pc, fixed_vars>>

pause_or_resume ==
    /\ paused' = ~paused
    /\ UNCHANGED <<cancel, in_flight, cancel_at, shared_vars, tx, tx_src,
                   walker_vars, pc, cur, local_vars, ret, started, scan_pc,
                   fixed_vars>>

(***************************************************************************)
(* The parallel walker (WalkParallel::run): workers take entries a         *)
(* directory listing has produced, call the visitor closure on each, and   *)
(* leave when the walk is exhausted or a visitor call returned Quit.       *)
(***************************************************************************)
Available(e) ==
    /\ e \notin taken
    /\ fs[e].dir = 0 \/ fs[e].dir \in listed

\* the closure returns WalkState::Continue (lines 123 and 127)
ReturnContinue(w) ==
    /\ pc' = [pc EXCEPT ![w] = "idle"]
    /\ cur' = [cur EXCEPT ![w] = 0]
    /\ UNCHANGED ret
    /\ sz' = [sz EXCEPT ![w] = 0]
    /\ b' = [b EXCEPT ![w] = 0]
    /\ m_scanned' = [m_scanned EXCEPT ![w] = 0]
    /\ m_discovered' = [m_discovered EXCEPT ![w] = 0]
    /\ UNCHANGED quit_now

\* the closure returns WalkState::Quit at source line `line`: the walker
\* raises its quit flag and this worker leaves
ReturnQuit(w, line) ==
    /\ pc' = [pc EXCEPT ![w] = "finished"]
    /\ cur' = [cur EXCEPT ![w] = 0]
    /\ ret' = [ret EXCEPT ![w] = line]
    /\ quit_now' = TRUE
    /\ UNCHANGED local_vars

get_work(w) ==
    /\ scan_pc = "walking"
    /\ pc[w] = "idle"
    /\ ~quit_now
    /\ \E e \in EntryIds :
        /\ Available(e)
        /\ taken' = taken \cup {e}
        /\ cur' = [cur EXCEPT ![w] = e]
    /\ pc' = [pc EXCEPT ![w] = "pause_check"]
    /\ UNCHANGED <<flag_vars, shared_vars, tx, tx_src, listed, quit_now,
                   local_vars, ret, started, scan_pc, fixed_vars>>

worker_exit(w) ==
    /\ scan_pc = "walking"
    /\ pc[w] = "idle"
    /\ \/ quit_now
       \/ /\ \A e \in EntryIds : ~Available(e)
          /\ \A v \in Workers : pc[v] \in {"idle", "finished"}
    /\ pc' = [pc EXCEPT ![w] = "finished"]
    /\ UNCHANGED <<flag_vars, shared_vars, tx, tx_src, walker_vars, cur,
                   local_vars, ret, started, scan_pc, fixed_vars>>

(***************************************************************************)
(* The visitor closure, scanner.rs lines 77-130.                           *)
(***************************************************************************)
\* the closure without the pause loop of lines 78-83
pause_check_ignored(w) ==
    /\ pc[w] = "pause_check"
    /\ pc' = [pc EXCEPT ![w] = "cancel_check"]
    /\ UNCHANGED <<flag_vars, shared_vars, tx, tx_src, walker_vars, cur,
                   local_vars, ret, started, scan_pc, fixed_vars>>

\* line 78: while paused_outer.load()
pause_check(w) ==
    /\ pc[w] = "pause_check"
    /\ pc' = [pc EXCEPT ![w] = IF paused THEN "pause_cancel" ELSE "cancel_check"]
    /\ UNCHANGED <<flag_vars, shared_vars, tx, tx_src, walker_vars, cur,
                   local_vars, ret, started, scan_pc, fixed_vars>>

\* pause loop that only sleeps, without the cancel check of line 79
pause_cancel_sleep_only(w) ==
    /\ pc[w] = "pause_cancel"
    /\ pc' = [pc EXCEPT ![w] = "pause_check"]
    /\ UNCHANGED <<cur, ret, quit_now, local_vars>>
    /\ UNCHANGED <<flag_vars, shared_vars, tx, tx_src, taken, listed, started,
                   scan_pc, fixed_vars>>

\* a pause loop that, once entered, never reads the pause flag again
pause_cancel_no_recheck(w) ==
    /\ pc[w] = "pause_cancel"
    /\ IF cancel
       THEN ReturnQuit(w, 80)
       ELSE /\ pc' = [pc EXCEPT ![w] = "pause_cancel"]
            /\ UNCHANGED <<cur, ret, quit_now, local_vars>>
    /\ UNCHANGED <<flag_vars, shared_vars, tx, tx_src, taken, listed, started,
                   scan_pc, fixed_vars>>

\* lines 79-82: inside the pause loop, return Quit when cancelled, else sleep
pause_cancel(w) ==
    /\ pc[w] = "pause_cancel"
    /\ IF cancel
       THEN ReturnQuit(w, 80)
       ELSE /\ pc' = [pc EXCEPT ![w] = "pause_check"]
            /\ UNCHANGED <<cur, ret, quit_now, local_vars>>
    /\ UNCHANGED <<flag_vars, shared_vars, tx, tx_src, taken, listed, started,
                   scan_pc, fixed_vars>>

\* the closure without the cancel check of line 84
cancel_check_skipped(w) ==
    /\ pc[w] = "cancel_check"
    /\ pc' = [pc EXCEPT ![w] = "match_entry"]
    /\ started' = started \cup {cur[w]}
    /\ UNCHANGED <<cur, ret, quit_now, local_vars>>
    /\ UNCHANGED <<flag_vars, shared_vars, tx, tx_src, taken, listed, scan_pc,
                   fixed_vars>>

\* a cancel check that reports the cancellation as an Error message
cancel_check_reports_error(w) ==
    /\ pc[w] = "cancel_check"
    /\ IF cancel
       THEN /\ ReturnQuit(w, 85)
            /\ Send(Error(<<"cancelled">>), w, cur[w])
            /\ UNCHANGED started
       ELSE /\ pc' = [pc EXCEPT ![w] = "match_entry"]
            /\ started' = started \cup {cur[w]}
            /\ UNCHANGED <<cur, ret, quit_now, local_vars, tx, tx_src>>
    /\ UNCHANGED <<flag_vars, shared_vars, taken, listed, scan_pc, fixed_vars>>

\* lines 84-86: the cancel check before the entry is processed
cancel_check(w) ==
    /\ pc[w] = "cancel_check"
    /\ IF cancel
       THEN /\ ReturnQuit(w, 85)
            /\ UNCHANGED started
       ELSE /\ pc' = [pc EXCEPT ![w] = "match_entry"]
            /\ started' = started \cup {cur[w]}
            /\ UNCHANGED <<cur, ret, quit_now, local_vars>>
    /\ UNCHANGED <<flag_vars, shared_vars, tx, tx_src, taken, listed, scan_pc,
                   fixed_vars>>

\* an entry Err arm that returns Quit instead of Continue
match_entry_err_quits(w) ==
    /\ pc[w] = "match_entry"
    /\ LET ent == fs[cur[w]] IN
       \/ /\ ent.kind = "err"
          /\ Send(Error(ent.path), w, cur[w])
          /\ ReturnQuit(w, 127)
          /\ UNCHANGED <<discovered, listed>>
       \/ /\ ent.kind = "dir"
          /\ listed' = listed \cup {cur[w]}
          /\ ReturnContinue(w)
          /\ UNCHANGED <<discovered, tx, tx_src>>
       \/ /\ ent.kind = "file"
          /\ discovered' = discovered + 1
          /\ pc' = [pc EXCEPT ![w] = "metadata"]
          /\ UNCHANGED <<tx, tx_src, listed, cur, ret, quit_now, local_vars>>
    /\ UNCHANGED <<flag_vars, scanned, bytes, bytes_lock, files, files_lock,
                   taken, started, scan_pc, fixed_vars>>

\* lines 87-90, 123, 125-128: match entry
match_entry(w) ==
    /\ pc[w] = "match_entry"
    /\ LET ent == fs[cur[w]] IN
       \/ /\ ent.kind = "err"
          /\ Send(Error(ent.path), w, cur[w])
          /\ ReturnContinue(w)
          /\ UNCHANGED <<discovered, listed>>
       \/ /\ ent.kind = "dir"
          /\ listed' = listed \cup {cur[w]}
          /\ ReturnContinue(w)
          /\ UNCHANGED <<discovered, tx, tx_src>>
       \/ /\ ent.kind = "file"
          /\ discovered' = discovered + 1
          /\ pc' = [pc EXCEPT ![w] = "metadata"]
          /\ UNCHANGED <<tx, tx_src, listed, cur, ret, quit_now, local_vars>>
    /\ UNCHANGED <<flag_vars, scanned, bytes, bytes_lock, files, files_lock,
                   taken, started, scan_pc, fixed_vars>>

\* a metadata Ok arm that counts the file as scanned twice
metadata_ok_counted_twice(w) ==
    /\ pc[w] = "metadata"
    /\ \/ /\ scanned' = scanned + 2
          /\ sz' = [sz EXCEPT ![w] = fs[cur[w]].size]
          /\ pc' = [pc EXCEPT ![w] = "lock_bytes"]
       \/ /\ scanned' = scanned + 1
          /\ pc' = [pc EXCEPT ![w] = "err_read_bytes"]
          /\ UNCHANGED sz
    /\ UNCHANGED <<flag_vars, discovered, bytes, bytes_lock, files, files_lock,
                   tx, tx_src, walker_vars, cur, b, m_scanned, m_discovered,
                   ret, started, scan_pc, fixed_vars>>

\* a metadata Err arm without the scanned.fetch_add of line 113
metadata_err_uncounted(w) ==
    /\ pc[w] = "metadata"
    /\ \/ /\ scanned' = scanned + 1
          /\ sz' = [sz EXCEPT ![w] = fs[cur[w]].size]
          /\ pc' = [pc EXCEPT ![w] = "lock_bytes"]
       \/ /\ pc' = [pc EXCEPT ![w] = "err_read_bytes"]
          /\ UNCHANGED <<scanned, sz>>
    /\ UNCHANGED <<flag_vars, discovered, bytes, bytes_lock, files, files_lock,
                   tx, tx_src, walker_vars, cur, b, m_scanned, m_discovered,
                   ret, started, scan_pc, fixed_vars>>

\* lines 92-95 and 111-113: ent.metadata() succeeds or fails; either way
\* scanned is incremented
metadata(w) ==
    /\ pc[w] = "metadata"
    /\ scanned' = scanned + 1
    /\ \/ /\ sz' = [sz EXCEPT ![w] = fs[cur[w]].size]
          /\ pc' = [pc EXCEPT ![w] = "lock_bytes"]
       \/ /\ pc' = [pc EXCEPT ![w] = "err_read_bytes"]
          /\ UNCHANGED sz
    /\ UNCHANGED <<flag_vars, discovered, bytes, bytes_lock, files, files_lock,
                   tx, tx_src, walker_vars, cur, b, m_scanned, m_discovered,
                   ret, started, scan_pc, fixed_vars>>

\* line 98 written as an assignment: *b = sz
lock_bytes_overwrite(w) ==
    /\ pc[w] = "lock_bytes"
    /\ bytes_lock = 0
    /\ bytes_lock' = w
    /\ bytes' = sz[w]
    /\ pc' = [pc EXCEPT ![w] = "ok_load_scanned"]
    /\ UNCHANGED <<flag_vars, discovered, scanned, files, files_lock, tx,
                   tx_src, walker_vars, cur, local_vars, ret, started, scan_pc,
                   fixed_vars>>

\* lines 97-98: bytes.lock(); *b = b.saturating_add(sz)
lock_bytes(w) ==
    /\ pc[w] = "lock_bytes"
    /\ bytes_lock = 0
    /\ bytes_lock' = w
    /\ bytes' = SatAdd(bytes, sz[w], SizeMax)
    /\ pc' = [pc EXCEPT ![w] = "ok_load_scanned"]
    /\ UNCHANGED <<flag_vars, discovered, scanned, files, files_lock, tx,
                   tx_src, walker_vars, cur, local_vars, ret, started, scan_pc,
                   fixed_vars>>

\* lines 100 and 116: scanned.load() for the Progress message
load_scanned(w) ==
    /\ pc[w] \in {"ok_load_scanned", "err_load_scanned"}
    /\ m_scanned' = [m_scanned EXCEPT ![w] = scanned]
    /\ pc' = [pc EXCEPT ![w] = IF pc[w] = "ok_load_scanned"
                               THEN "ok_load_discovered"
                               ELSE "err_load_discovered"]
    /\ UNCHANGED <<flag_vars, shared_vars, tx, tx_src, walker_vars, cur, sz, b,
                   m_discovered, ret, started, scan_pc, fixed_vars>>

\* lines 101 and 117: discovered.load() for the Progress message
load_discovered(w) ==
    /\ pc[w] \in {"ok_load_discovered", "err_load_discovered"}
    /\ m_discovered' = [m_discovered EXCEPT ![w] = discovered]
    /\ pc' = [pc EXCEPT ![w] = IF pc[w] = "ok_load_discovered"
                               THEN "ok_send"
                               ELSE "err_send"]
    /\ UNCHANGED <<flag_vars, shared_vars, tx, tx_src, walker_vars, cur, sz, b,
                   m_scanned, ret, started, scan_pc, fixed_vars>>

\* lines 99-103: tx.send(Progress) with bytes: *b, the guard still alive
ok_send_progress(w) ==
    /\ pc[w] = "ok_send"
    /\ Send(Progress(m_scanned[w], m_discovered[w], bytes), w, cur[w])
    /\ pc' = [pc EXCEPT ![w] = "unlock_bytes"]
    /\ UNCHANGED <<flag_vars, shared_vars, walker_vars, cur, local_vars, ret,
                   started, scan_pc, fixed_vars>>

\* the bytes guard kept alive past the end of the block
unlock_bytes_late(w) ==
    /\ pc[w] = "unlock_bytes"
    /\ pc' = [pc EXCEPT ![w] = "send_file"]
    /\ UNCHANGED <<flag_vars, shared_vars, tx, tx_src, walker_vars, cur,
                   local_vars, ret, started, scan_pc, fixed_vars>>

\* line 104: the block ends and the bytes guard is dropped
unlock_bytes(w) ==
    /\ pc[w] = "unlock_bytes"
    /\ bytes_lock' = 0
    /\ pc' = [pc EXCEPT ![w] = "send_file"]
    /\ UNCHANGED <<flag_vars, discovered, scanned, bytes, files, files_lock,
                   tx, tx_src, walker_vars, cur, local_vars, ret, started,
                   scan_pc, fixed_vars>>

\* lines 105-108: tx.send(File)
send_file(w) ==
    /\ pc[w] = "send_file"
    /\ Send(File(fs[cur[w]].path, sz[w]), w, cur[w])
    /\ pc' = [pc EXCEPT ![w] = "lock_files"]
    /\ UNCHANGED <<flag_vars, shared_vars, walker_vars, cur, local_vars, ret,
                   started, scan_pc, fixed_vars>>

\* a worker that looks at the cancel flag between the File message and the
\* push and leaves the file out when the flag is set
lock_files_quits_on_cancel(w) ==
    /\ pc[w] = "lock_files"
    /\ \/ /\ cancel
          /\ ReturnQuit(w, 109)
          /\ UNCHANGED <<files_lock, taken, listed>>
       \/ /\ ~cancel
          /\ files_lock = 0
          /\ files_lock' = w
          /\ pc' = [pc EXCEPT ![w] = "push_file"]
          /\ UNCHANGED <<walker_vars, cur, local_vars, ret>>
    /\ UNCHANGED <<flag_vars, discovered, scanned, bytes, bytes_lock, files,
                   tx, tx_src, started, scan_pc, fixed_vars>>

\* line 109: files.lock()
lock_files(w) ==
    /\ pc[w] = "lock_files"
    /\ files_lock = 0
    /\ files_lock' = w
    /\ pc' = [pc EXCEPT ![w] = "push_file"]
    /\ UNCHANGED <<flag_vars, discovered, scanned, bytes, bytes_lock, files,
                   tx, tx_src, walker_vars, cur, local_vars, ret, started,
                   scan_pc, fixed_vars>>

\* line 109: .push((path, sz)), the temporary guard dropped; line 123
push_file(w) ==
    /\ pc[w] = "push_file"
    /\ files' = Append(files, [path |-> fs[cur[w]].path, size |-> sz[w]])
    /\ files_lock' = 0
    /\ ReturnContinue(w)
    /\ UNCHANGED <<flag_vars, discovered, scanned, bytes, bytes_lock, tx,
                   tx_src, taken, listed, started, scan_pc, fixed_vars>>

\* line 114: let b = *bytes.lock(), the temporary guard dropped at once
err_read_bytes(w) ==
    /\ pc[w] = "err_read_bytes"
    /\ bytes_lock = 0
    /\ b' = [b EXCEPT ![w] = bytes]
    /\ pc' = [pc EXCEPT ![w] = "err_load_scanned"]
    /\ UNCHANGED <<flag_vars, shared_vars, tx, tx_src, walker_vars, cur, sz,
                   m_scanned, m_discovered, ret, started, scan_pc, fixed_vars>>

\* lines 115-119: tx.send(Progress) with bytes: b; line 123
err_send_progress(w) ==
    /\ pc[w] = "err_send"
    /\ Send(Progress(m_scanned[w], m_discovered[w], b[w]), w, cur[w])
    /\ ReturnContinue(w)
    /\ UNCHANGED <<flag_vars, shared_vars, taken, listed, started, scan_pc,
                   fixed_vars>>

(***************************************************************************)
(* Scanner::scan after walker.run returns, lines 133-138.                  *)
(***************************************************************************)
\* the walk taken as over as soon as one worker has left
WorkersJoined_any == \E w \in Workers : pc[w] = "finished"

\* walker.run(..) has returned: every worker thread has been joined
WorkersJoined == \A w \in Workers : pc[w] = "finished"

\* Arc::try_unwrap(files) .. build_tree(&root, files) .. tx.send(Done(tree))
assemble_and_done ==
    /\ scan_pc = "walking"
    /\ WorkersJoined
    /\ Send(Done(build_tree(ScanRoot, files)), MainThread, 0)
    /\ scan_pc' = "done"
    /\ UNCHANGED <<flag_vars, shared_vars, walker_vars, pc, cur, local_vars,
                   ret, started, fixed_vars>>

(***************************************************************************)
(* SpecBT: build_tree applied to the chosen input.                         *)
(***************************************************************************)
build_tree_call ==
    /\ bt_pc = "input"
    /\ bt_tree' = build_tree(bt_root, bt_files)
    /\ bt_pc' = "built"
    /\ UNCHANGED <<scan_vars, bt_root, bt_files, bt_needle, bt_filter, bt_counts,
                   app_vars, fn_vars>>

\* SearchFilter::build applied to the tree built and a chosen needle
search_build ==
    /\ bt_pc = "built"
    /\ \E needle \in Needles :
        /\ bt_needle' = needle
        /\ bt_filter' = SearchFilter_build(needle, bt_tree)
    /\ bt_pc' = "searched"
    /\ UNCHANGED <<scan_vars, bt_root, bt_files, bt_tree, bt_counts, app_vars,
                   fn_vars>>

\* one step of the pass of compute_dir_counts: the count of node idx from
\* the counts of its Dir children as they stand
count_dirs_at(t, counts, idx) ==
    LET children == t.nodes[idx + 1].children
        T[k \in 0..Len(children)] ==
            IF k = 0 THEN 0
            ELSE IF t.nodes[children[k] + 1].kind = "Dir"
                 THEN T[k - 1] + 1 + counts[children[k] + 1]
                 ELSE T[k - 1]
    IN  IF t.nodes[idx + 1].kind = "Dir"
        THEN [counts EXCEPT ![idx + 1] = T[Len(children)]]
        ELSE counts

\* the pass over the arena from index idx down to 0
RECURSIVE reverse_pass(_, _, _)
reverse_pass(t, counts, idx) ==
    IF idx < 0 THEN counts
    ELSE reverse_pass(t, count_dirs_at(t, counts, idx), idx - 1)

\* the pass over the arena from index idx up to the last
RECURSIVE forward_pass(_, _, _)
forward_pass(t, counts, idx) ==
    IF idx >= Len(t.nodes) THEN counts
    ELSE forward_pass(t, count_dirs_at(t, counts, idx), idx + 1)

\* compute_dir_counts with the pass from the first index to the last
compute_dir_counts_forward(t) ==
    forward_pass(t, [i \in 1..Len(t.nodes) |-> 0], 0)

\* compute_dir_counts (crates/core/src/export.rs)
compute_dir_counts(t) ==
    reverse_pass(t, [i \in 1..Len(t.nodes) |-> 0], Len(t.nodes) - 1)

\* compute_dir_counts applied to the tree built
dir_counts_call ==
    /\ bt_pc = "built"
    /\ bt_counts' = compute_dir_counts(bt_tree)
    /\ bt_pc' = "counted"
    /\ UNCHANGED <<scan_vars, bt_root, bt_files, bt_tree, bt_needle, bt_filter,
                   app_vars, fn_vars>>

(***************************************************************************)
(* SpecApp: the application state (crates/app/src/state.rs) and the        *)
(* consumer of the channel (poll_scan in crates/app/src/ui.rs).  A scanner *)
(* thread is taken here at the level of its channel: for each file of its  *)
(* list a Progress and a File message, then one Done message carrying the  *)
(* tree of the list.  Every scan is of ScanRoot.                           *)
(***************************************************************************)
ScanFileA == [path |-> ScanRoot \o <<"a.txt">>, size |-> 100]

ScanFileB == [path |-> ScanRoot \o <<"b.txt">>, size |-> 50]

ScanFileSubB == [path |-> ScanRoot \o <<"Sub", "B.TXT">>, size |-> 50]

\* the file lists a scan may collect
ScanLists == {<<>>, <<ScanFileA>>, <<ScanFileB>>, <<ScanFileA, ScanFileSubB>>}

\* the texts typed into the search box
Searches == {<<>>, <<" ", "\t">>, <<"a">>, <<" ", "b", ".", "T", " ">>, <<"z">>}

SortKeys == {"Size", "Name", "Count"}

\* char::is_whitespace for the characters of the model
WhiteSpace == {" ", "\t", "\n", "\r"}

RECURSIVE trim_start(_)
trim_start(t) ==
    IF t # <<>> /\ Head(t) \in WhiteSpace THEN trim_start(Tail(t)) ELSE t

RECURSIVE trim_end(_)
trim_end(t) ==
    IF t # <<>> /\ t[Len(t)] \in WhiteSpace
    THEN trim_end(SubSeq(t, 1, Len(t) - 1))
    ELSE t

\* str::trim
trim(t) == trim_end(trim_start(t))

\* the characters of the model in byte order
ByteOrder == <<"\t", "\n", "\r", " ", ".", "/">> \o UpperCase \o LowerCase

Byte(c) == CHOOSE k \in DOMAIN ByteOrder : ByteOrder[k] = c

\* String::cmp(a, b) = Less: byte-wise lexicographic order
RECURSIVE str_lt(_, _)
str_lt(x, y) ==
    IF y = <<>> THEN FALSE
    ELSE IF x = <<>> THEN TRUE
    ELSE IF Head(x) = Head(y) THEN str_lt(Tail(x), Tail(y))
    ELSE Byte(Head(x)) < Byte(Head(y))

\* the comparator with the operands of the Size comparison the other way round
sorts_before_size_ascending(t, key, x, y) ==
    CASE key = "Size"  -> t.nodes[x + 1].size < t.nodes[y + 1].size
      [] key = "Name"  -> str_lt(Chars(t.nodes[x + 1].name), Chars(t.nodes[y + 1].name))
      [] key = "Count" -> t.nodes[y + 1].file_count < t.nodes[x + 1].file_count

\* the comparator of sort_file_lists returns Less for (x, y)
sorts_before(t, key, x, y) ==
    CASE key = "Size"  -> t.nodes[y + 1].size < t.nodes[x + 1].size
      [] key = "Name"  -> str_lt(Chars(t.nodes[x + 1].name), Chars(t.nodes[y + 1].name))
      [] key = "Count" -> t.nodes[y + 1].file_count < t.nodes[x + 1].file_count

\* x put into the sorted list after every element it does not sort before
RECURSIVE insert_stable(_, _, _, _)
insert_stable(t, key, ids, x) ==
    IF ids = <<>> THEN <<x>>
    ELSE IF sorts_before(t, key, x, Head(ids)) THEN <<x>> \o ids
    ELSE <<Head(ids)>> \o insert_stable(t, key, Tail(ids), x)

\* ids.sort_by(..): the stable sort of ids under key
RECURSIVE sort_ids(_, _, _)
sort_ids(t, key, ids) ==
    IF ids = <<>> THEN <<>>
    ELSE insert_stable(t, key, sort_ids(t, key, SubSeq(ids, 1, Len(ids) - 1)),
                       ids[Len(ids)])

\* AppState::sort_file_lists on the two lists
sort_file_lists(treeOpt, key, lists) ==
    IF ~treeOpt.some THEN lists
    ELSE [file_nodes |-> sort_ids(treeOpt.val, key, lists.file_nodes),
          filtered_file_nodes |-> sort_ids(treeOpt.val, key, lists.filtered_file_nodes)]

\* SearchFilter::matches_node
matches_node(filter, id) == filter.direct_matches[id + 1]

\* refresh_filtered_files that shows no file when there is no filter
refresh_filtered_files_none_matches(treeOpt, filterOpt, key, fnodes) ==
    IF treeOpt.some
    THEN sort_file_lists(treeOpt, key,
            [file_nodes |-> fnodes,
             filtered_file_nodes |->
                IF filterOpt.some
                THEN SelectSeq(fnodes, LAMBDA id : matches_node(filterOpt.val, id))
                ELSE <<>>])
    ELSE [file_nodes |-> fnodes, filtered_file_nodes |-> <<>>]

\* AppState::refresh_filtered_files: the two lists after the call
refresh_filtered_files(treeOpt, filterOpt, key, fnodes) ==
    IF treeOpt.some
    THEN sort_file_lists(treeOpt, key,
            [file_nodes |-> fnodes,
             filtered_file_nodes |->
                IF filterOpt.some
                THEN SelectSeq(fnodes, LAMBDA id : matches_node(filterOpt.val, id))
                ELSE fnodes])
    ELSE [file_nodes |-> fnodes, filtered_file_nodes |-> <<>>]

\* the filter AppState::apply_search stores
search_filter_for(treeOpt, text) ==
    IF treeOpt.some /\ trim(text) # <<>>
    THEN Some(SearchFilter_build(trim(text), treeOpt.val))
    ELSE NoneOpt

\* AppState::apply_search with file_nodes = fnodes
ApplySearch(fnodes) ==
    LET filter == search_filter_for(tree, search)
        lists == refresh_filtered_files(tree, filter, sort, fnodes)
    IN  /\ search_filter' = filter
        /\ built_for' = IF filter.some
                        THEN Some([needle |-> trim(search), tree |-> tree.val])
                        ELSE NoneOpt
        /\ rebuilt' = filter.some
        /\ file_nodes' = lists.file_nodes
        /\ filtered_file_nodes' = lists.filtered_file_nodes

apply_search ==
    /\ ApplySearch(file_nodes)
    /\ UNCHANGED <<chan_vars, progress_vars, sort, search, tree, sel_vars,
                   scan_vars, bt_vars, fn_vars>>

\* the ids of the File nodes of the tree, in arena order
file_ids(treeOpt) ==
    IF treeOpt.some
    THEN LET n == Len(treeOpt.val.nodes)
             F[i \in 0..n] ==
                IF i = 0 THEN <<>>
                ELSE IF treeOpt.val.nodes[i].kind = "File"
                     THEN Append(F[i - 1], i - 1)
                     ELSE F[i - 1]
         IN  F[n]
    ELSE <<>>

rebuild_file_cache ==
    /\ ApplySearch(file_ids(tree))
    /\ UNCHANGED <<chan_vars, progress_vars, sort, search, tree, sel_vars,
                   scan_vars, bt_vars, fn_vars>>

\* start_scan that leaves the search filter of the old tree in place
start_scan_keeps_filter ==
    /\ Len(scans) < MaxScans
    /\ \E list \in ScanLists :
        scans' = Append(scans, [list |-> list, k |-> 0, done |-> FALSE,
                               cancelled |-> FALSE])
    /\ progress_bytes' = 0
    /\ progress_files' = 0
    /\ progress_discovered' = 0
    /\ tree' = NoneOpt
    /\ current_dir' = None
    /\ selected' = None
    /\ pending_delete' = None
    /\ pending_properties' = None
    /\ file_nodes' = <<>>
    /\ filtered_file_nodes' = <<>>
    /\ cancel' = FALSE
    /\ paused' = FALSE
    /\ scan_rx' = Len(scans) + 1
    /\ rx_queue' = <<>>
    /\ rebuilt' = FALSE
    /\ UNCHANGED <<search_filter, built_for, sort, search, removed, scan_rest,
                   bt_vars, fn_vars>>

\* AppState::start_scan: the state is reset, a new channel replaces the old
\* receiver and a scanner thread is spawned with the sender
start_scan_then(rm) ==
    /\ Len(scans) < MaxScans
    /\ \E list \in ScanLists :
        scans' = Append(scans, [list |-> list, k |-> 0, done |-> FALSE,
                               cancelled |-> FALSE])
    /\ progress_bytes' = 0
    /\ progress_files' = 0
    /\ progress_discovered' = 0
    /\ tree' = NoneOpt
    /\ current_dir' = None
    /\ selected' = None
    /\ pending_delete' = None
    /\ pending_properties' = None
    /\ search_filter' = NoneOpt
    /\ built_for' = NoneOpt
    /\ file_nodes' = <<>>
    /\ filtered_file_nodes' = <<>>
    /\ cancel' = FALSE
    /\ paused' = FALSE
    /\ scan_rx' = Len(scans) + 1
    /\ rx_queue' = <<>>
    /\ rebuilt' = FALSE
    /\ removed' = rm
    /\ UNCHANGED <<sort, search, scan_rest, bt_vars, fn_vars>>

start_scan == start_scan_then(removed)

reset_to_initial ==
    /\ scan_rx' = None
    /\ rx_queue' = <<>>
    /\ tree' = NoneOpt
    /\ current_dir' = None
    /\ selected' = None
    /\ progress_bytes' = 0
    /\ progress_discovered' = 0
    /\ progress_files' = 0
    /\ search_filter' = NoneOpt
    /\ built_for' = NoneOpt
    /\ file_nodes' = <<>>
    /\ filtered_file_nodes' = <<>>
    /\ rebuilt' = FALSE
    /\ UNCHANGED <<scans, pending_delete, pending_properties, removed, sort, search,
                   scan_vars, bt_vars, fn_vars>>

\* a send that reaches whatever receiver the application holds, as if all
\* scans shared one channel
Deliver_shared_channel(g, msgs) ==
    rx_queue' = IF scan_rx # None THEN rx_queue \o msgs ELSE rx_queue

\* tx.send(..) by the thread of scan g: the message is queued if the
\* application still holds the receiver, dropped if not
Deliver(g, msgs) ==
    rx_queue' = IF scan_rx = g THEN rx_queue \o msgs ELSE rx_queue

\* the byte total after the first k files of list
RECURSIVE total_bytes(_, _)
total_bytes(list, k) ==
    IF k = 0 THEN 0
    ELSE SatAdd(total_bytes(list, k - 1), list[k].size, SizeMax)

\* AppState::cancel_scan: the flag every scanner thread shares is set; the
\* scans still running are marked, for the properties
app_cancel_scan ==
    /\ cancel' = TRUE
    /\ scans' = [g \in DOMAIN scans |->
                    IF scans[g].done THEN scans[g]
                    ELSE [scans[g] EXCEPT !.cancelled = TRUE]]
    /\ rebuilt' = FALSE
    /\ UNCHANGED <<paused, scan_rx, rx_queue, progress_vars, sort, search, tree,
                   sel_vars, search_vars, scan_rest, bt_vars, fn_vars>>

\* the thread of scan g reports its next file, after the check of the
\* cancel flag at the entry
scan_report(g) ==
    /\ g \in DOMAIN scans
    /\ ~cancel
    /\ scans[g].k < Len(scans[g].list)
    /\ LET k == scans[g].k + 1
           file == scans[g].list[k]
       IN  Deliver(g, <<Progress(k, k, total_bytes(scans[g].list, k)),
                        File(file.path, file.size)>>)
    /\ scans' = [scans EXCEPT ![g].k = @ + 1]
    /\ rebuilt' = FALSE
    /\ UNCHANGED <<scan_rx, progress_vars, sort, search, tree, sel_vars,
                   search_vars, scan_vars, bt_vars, fn_vars>>

\* the thread of scan g reads the cancel flag set at its next entry and
\* quits the walk: the files it has collected are those reported so far
scan_quit(g) ==
    /\ g \in DOMAIN scans
    /\ cancel
    /\ scans[g].k < Len(scans[g].list)
    /\ scans' = [scans EXCEPT ![g].list = SubSeq(@, 1, scans[g].k)]
    /\ rebuilt' = FALSE
    /\ UNCHANGED <<scan_rx, rx_queue, progress_vars, sort, search, tree, sel_vars,
                   search_vars, scan_vars, bt_vars, fn_vars>>

\* the thread of scan g builds the tree and sends Done
scan_finish(g) ==
    /\ g \in DOMAIN scans
    /\ scans[g].k = Len(scans[g].list)
    /\ ~scans[g].done
    /\ Deliver(g, <<Done(build_tree(ScanRoot, scans[g].list))>>)
    /\ scans' = [scans EXCEPT ![g].done = TRUE]
    /\ rebuilt' = FALSE
    /\ UNCHANGED <<scan_rx, progress_vars, sort, search, tree, sel_vars,
                   search_vars, scan_vars, bt_vars, fn_vars>>

\* the files of the File messages of msgs, in order
RECURSIVE files_of(_)
files_of(msgs) ==
    IF msgs = <<>> THEN <<>>
    ELSE IF Head(msgs).type = "File"
         THEN <<[path |-> Head(msgs).path, size |-> Head(msgs).bytes]>>
                \o files_of(Tail(msgs))
         ELSE files_of(Tail(msgs))

\* poll_scan that shows a tree of the File messages drained so far
poll_scan_shows_files ==
    /\ scan_rx # None
    /\ LET dones == {i \in DOMAIN rx_queue : rx_queue[i].type = "Done"}
           finished == dones # {}
           upto == IF finished
                   THEN CHOOSE i \in dones : \A j \in dones : i <= j
                   ELSE Len(rx_queue)
           progs == {i \in 1..upto : rx_queue[i].type = "Progress"}
           last == CHOOSE i \in progs : \A j \in progs : j <= i
       IN  /\ progress_files' = IF progs # {} THEN rx_queue[last].scanned
                                ELSE progress_files
           /\ progress_discovered' = IF progs # {} THEN rx_queue[last].discovered
                                     ELSE progress_discovered
           /\ progress_bytes' = IF progs # {} THEN rx_queue[last].bytes
                                ELSE progress_bytes
           /\ tree' = IF finished THEN Some(rx_queue[upto].tree)
                      ELSE IF files_of(rx_queue) # <<>>
                           THEN Some(build_tree(ScanRoot, files_of(rx_queue)))
                           ELSE tree
           /\ scan_rx' = IF finished THEN None ELSE scan_rx
    /\ rx_queue' = <<>>
    /\ rebuilt' = FALSE
    /\ UNCHANGED <<scans, sort, search, sel_vars, search_vars, scan_vars, bt_vars, fn_vars>>

\* poll_scan (ui.rs): the receiver is taken, the queue drained up to and
\* including a Done message, and the receiver is put back unless Done came
poll_scan ==
    /\ scan_rx # None
    /\ LET dones == {i \in DOMAIN rx_queue : rx_queue[i].type = "Done"}
           finished == dones # {}
           upto == IF finished
                   THEN CHOOSE i \in dones : \A j \in dones : i <= j
                   ELSE Len(rx_queue)
           progs == {i \in 1..upto : rx_queue[i].type = "Progress"}
           last == CHOOSE i \in progs : \A j \in progs : j <= i
       IN  /\ progress_files' = IF progs # {} THEN rx_queue[last].scanned
                                ELSE progress_files
           /\ progress_discovered' = IF progs # {} THEN rx_queue[last].discovered
                                     ELSE progress_discovered
           /\ progress_bytes' = IF progs # {} THEN rx_queue[last].bytes
                                ELSE progress_bytes
           /\ tree' = IF finished THEN Some(rx_queue[upto].tree) ELSE tree
           /\ scan_rx' = IF finished THEN None ELSE scan_rx
    /\ rx_queue' = <<>>
    /\ rebuilt' = FALSE
    /\ UNCHANGED <<scans, sort, search, sel_vars, search_vars, scan_vars, bt_vars, fn_vars>>

\* ui.text_edit_singleline(&mut app.search)
set_search ==
    /\ \E text \in Searches : search' = text
    /\ rebuilt' = FALSE
    /\ UNCHANGED <<chan_vars, progress_vars, sort, tree, sel_vars, search_vars,
                   scan_vars, bt_vars, fn_vars>>

\* ui.selectable_value(&mut app.sort, ..)
set_sort ==
    /\ \E key \in SortKeys : sort' = key
    /\ rebuilt' = FALSE
    /\ UNCHANGED <<chan_vars, progress_vars, search, tree, sel_vars, search_vars,
                   scan_vars, bt_vars, fn_vars>>

(***************************************************************************)
(* The handlers of the node ids (state.rs) and the places of ui.rs that    *)
(* call them: the clicks of a frame collected by the folder tree and the   *)
(* pie chart, the top bar, the two dialogs.                                *)
(***************************************************************************)
Ids == [current_dir |-> current_dir, selected |-> selected,
        pending_delete |-> pending_delete,
        pending_properties |-> pending_properties]

SetIds(st) ==
    /\ current_dir' = st.current_dir
    /\ selected' = st.selected
    /\ pending_delete' = st.pending_delete
    /\ pending_properties' = st.pending_properties

\* what the handlers of the ids leave alone
ids_rest == <<chan_vars, progress_vars, sort, search, tree, removed,
              search_vars, scan_vars, bt_vars, fn_vars>>

\* AppState::request_delete
request_delete(st, id) ==
    [st EXCEPT !.selected = id, !.pending_delete = id,
               !.pending_properties = None]

\* AppState::request_properties
request_properties(st, id) ==
    [st EXCEPT !.selected = id, !.pending_properties = id,
               !.pending_delete = None]

NoActions == [select |-> None, open |-> None, delete |-> None,
              properties |-> None]

\* the FolderTreeActions one click on node id of t leaves: a click on a
\* label, or one of the entries Open, Delete, Properties of its menu
ClicksOn(t, id) ==
    {[NoActions EXCEPT !.select = id, !.delete = id],
     [NoActions EXCEPT !.select = id, !.properties = id]}
      \cup IF t.nodes[id + 1].kind = "Dir"
           THEN {[NoActions EXCEPT !.select = id, !.open = id]}
           ELSE {[NoActions EXCEPT !.select = id]}

\* the four steps of apply_folder_actions and apply_pie_actions, in order
apply_actions(st, a) ==
    LET s1 == IF a.select # None THEN [st EXCEPT !.selected = a.select] ELSE st
        s2 == IF a.open # None THEN [s1 EXCEPT !.current_dir = a.open] ELSE s1
        s3 == IF a.delete # None THEN request_delete(s2, a.delete) ELSE s2
    IN  IF a.properties # None THEN request_properties(s3, a.properties) ELSE s3

\* a click in the folder tree, which shows every node of the tree
apply_folder_actions ==
    /\ tree.some
    /\ \E id \in 0..(Len(tree.val.nodes) - 1) :
        \E a \in ClicksOn(tree.val, id) : SetIds(apply_actions(Ids, a))
    /\ rebuilt' = FALSE
    /\ UNCHANGED ids_rest

\* a click in the pie chart, which shows the children of the current
\* directory
apply_pie_actions ==
    /\ tree.some
    /\ current_dir # None
    /\ LET children == tree.val.nodes[current_dir + 1].children
       IN  \E k \in DOMAIN children :
            \E a \in ClicksOn(tree.val, children[k]) :
                SetIds(apply_actions(Ids, a))
    /\ rebuilt' = FALSE
    /\ UNCHANGED ids_rest

\* the button Delete Selected of the top bar and of the side panel
delete_selected_clicked ==
    /\ selected # None
    /\ SetIds(request_delete(Ids, selected))
    /\ rebuilt' = FALSE
    /\ UNCHANGED ids_rest

\* AppState::navigate_up, behind the button Up
navigate_up ==
    /\ tree.some
    /\ current_dir # None
    /\ tree.val.nodes[current_dir + 1].parent # None
    /\ current_dir' = tree.val.nodes[current_dir + 1].parent
    /\ selected' = None
    /\ rebuilt' = FALSE
    /\ UNCHANGED <<pending_delete, pending_properties, ids_rest>>

\* AppState::set_current_root, and the central panel, which opens the root
\* when no directory is open
set_current_root ==
    /\ tree.some
    /\ current_dir' = tree.val.root
    /\ rebuilt' = FALSE
    /\ UNCHANGED <<selected, pending_delete, pending_properties, ids_rest>>

\* AppState::delete_selected_and_rescan: the path of the selected node is
\* removed and the root scanned again
delete_selected_and_rescan ==
    /\ tree.some
    /\ selected # None
    /\ start_scan_then(Append(removed, tree.val.nodes[selected + 1].path))

\* the button Delete of the dialog Confirm Delete
confirm_delete ==
    /\ pending_delete # None
    /\ IF tree.some /\ selected # None
       THEN delete_selected_and_rescan
       ELSE /\ pending_delete' = None
            /\ rebuilt' = FALSE
            /\ UNCHANGED <<current_dir, selected, pending_properties, ids_rest>>

\* the button Cancel of the dialog, or the dialog closed
cancel_delete ==
    /\ pending_delete # None
    /\ pending_delete' = None
    /\ rebuilt' = FALSE
    /\ UNCHANGED <<current_dir, selected, pending_properties, ids_rest>>

show_delete_confirmation == confirm_delete \/ cancel_delete

\* the dialog Properties closed, by the user or for want of its node
show_properties_panel ==
    /\ pending_properties # None
    /\ pending_properties' = None
    /\ rebuilt' = FALSE
    /\ UNCHANGED <<current_dir, selected, pending_delete, ids_rest>>

(***************************************************************************)
(* SpecSort: the two sorters applied to a chosen sequence of node ids.     *)
(***************************************************************************)
\* longest sequence of node ids given to a sorter
MaxSortLen == 3

SortFileEtcB == [path |-> ScanRoot \o <<"etc", "b.txt">>, size |-> 50]

SortFileSubB == [path |-> ScanRoot \o <<"sub", "b.txt">>, size |-> 50]

\* the trees whose nodes are sorted: equal sizes, equal names and equal
\* counts occur, and names in both cases
SortTrees == {build_tree(ScanRoot, <<ScanFileA, SortFileSubB, SortFileEtcB>>),
              build_tree(ScanRoot, <<ScanFileA, ScanFileSubB>>)}

\* the sequences over S of length at most n
SeqsUpTo(S, n) == UNION {[1..k -> S] : k \in 0..n}

\* sort_node_ids of ui.rs: nodes.sort_by(..) with the comparator of the key
sort_node_ids(nodes, t, key) == sort_ids(t, key, nodes)

InitSort ==
    /\ AppInit
    /\ ScanInit("off", ScanFS)
    /\ bt_pc = "off"
    /\ bt_root = <<>>
    /\ bt_files = <<>>
    /\ bt_tree = NoTree
    /\ bt_needle = <<>>
    /\ bt_filter = NoFilter
    /\ bt_counts = <<>>
    /\ srt_pc = "input"
    /\ srt_tree \in SortTrees
    /\ srt_nodes \in SeqsUpTo(0..(Len(srt_tree.nodes) - 1), MaxSortLen)
    /\ srt_key \in SortKeys
    /\ srt_out = <<>>
    /\ srt_lists = [file_nodes |-> <<>>, filtered_file_nodes |-> <<>>]
    /\ tm_pc = "off"
    /\ tm_weights = <<>>
    /\ tm_area = [x |-> 0, y |-> 0, w |-> 0, h |-> 0]
    /\ tm_out = <<>>

\* both sorters applied to the chosen sequence; sort_file_lists is given it
\* as file_nodes and its File ids as filtered_file_nodes
sort_call ==
    /\ srt_pc = "input"
    /\ srt_out' = sort_node_ids(srt_nodes, srt_tree, srt_key)
    /\ srt_lists' = sort_file_lists(Some(srt_tree), srt_key,
            [file_nodes |-> srt_nodes,
             filtered_file_nodes |->
                SelectSeq(srt_nodes, LAMBDA id : srt_tree.nodes[id + 1].kind = "File")])
    /\ srt_pc' = "sorted"
    /\ UNCHANGED <<scan_vars, bt_vars, app_vars, srt_tree, srt_nodes, srt_key,
                   tm_vars>>

(***************************************************************************)
(* SpecTM: squarify (crates/core/src/treemap.rs).  An f32 coordinate is an *)
(* integer number of grid steps, GridPerUnit steps to 1.0; the cast of a   *)
(* product to f32 rounds to the nearest step, sums and differences of      *)
(* coordinates are exact.  An f64 weight is NaN, +infinity or a finite     *)
(* integer; a sum above F64Max is +infinity.                               *)
(***************************************************************************)
\* longest weight list given to squarify
MaxItems == 3
\* stand-in for f64::MAX
F64Max == 8
\* grid steps to 1.0
GridPerUnit == 2

Fin(v) == [k |-> "fin", v |-> v]

NaN == [k |-> "nan"]

PosInf == [k |-> "inf"]

\* the weights an item may carry
Weights == {Fin(-1), Fin(0), Fin(1), Fin(2), Fin(3), NaN, PosInf}

\* f64::is_finite
is_finite(x) == x.k = "fin"

\* x > 0.0: false for NaN
gt_zero(x) == x.k = "inf" \/ (x.k = "fin" /\ x.v > 0)

\* the rectangles given to squarify
Areas == {[x |-> x, y |-> 0, w |-> w, h |-> h] :
            x \in {0, 3}, w \in {-2, 0, 2, 9, 16}, h \in {0, 2, 9, 12}}

\* the weight lists given to squarify: item k carries NodeId k - 1
WeightLists ==
    {[k \in DOMAIN ws |-> [id |-> k - 1, weight |-> ws[k]]] :
        ws \in SeqsUpTo(Weights, MaxItems)}

\* n / d rounded to the nearest integer, a tie to the even one (n >= 0, d > 0)
round_div(n, d) ==
    LET q == n \div d
        r == n % d
    IN  IF 2 * r < d THEN q
        ELSE IF 2 * r > d THEN q + 1
        ELSE IF q % 2 = 0 THEN q ELSE q + 1

\* (extent as f64 * (weight / total).max(0.0)) as f32
slice_extent(extent, weight, total) ==
    IF extent <= 0 THEN 0 ELSE round_div(extent * weight, total)

\* items.sort_by(|a, b| b.1.partial_cmp(&a.1)..): stable, weight descending
RECURSIVE insert_by_weight(_, _)
insert_by_weight(items, it) ==
    IF items = <<>> THEN <<it>>
    ELSE IF Head(items).weight.v < it.weight.v THEN <<it>> \o items
    ELSE <<Head(items)>> \o insert_by_weight(Tail(items), it)

RECURSIVE sort_by_weight(_)
sort_by_weight(items) ==
    IF items = <<>> THEN <<>>
    ELSE insert_by_weight(sort_by_weight(SubSeq(items, 1, Len(items) - 1)),
                          items[Len(items)])

\* items.iter().map(|(_, w)| w).sum(): +infinity above F64Max
RECURSIVE sum_weights(_)
sum_weights(items) ==
    IF items = <<>> THEN Fin(0)
    ELSE LET rest == sum_weights(Tail(items))
         IN  IF rest.k = "inf" \/ rest.v + Head(items).weight.v > F64Max
             THEN PosInf
             ELSE Fin(rest.v + Head(items).weight.v)

\* the remaining rectangle that keeps its origin when a slice is cut off
advance_extent_only(r, horizontal, c) ==
    IF horizontal THEN [r EXCEPT !.w = @ - c] ELSE [r EXCEPT !.h = @ - c]

\* x += cw; w -= cw, or y += ch; h -= ch
advance(r, horizontal, c) ==
    IF horizontal
    THEN [r EXCEPT !.x = @ + c, !.w = @ - c]
    ELSE [r EXCEPT !.y = @ + c, !.h = @ - c]

\* the for loop over the sorted items; r is the remaining rectangle
RECURSIVE place(_, _, _, _, _)
place(items, total, horizontal, r, out) ==
    IF items = <<>> THEN out
    ELSE LET it == Head(items)
             c == slice_extent(IF horizontal THEN r.w ELSE r.h, it.weight.v, total)
             rect == IF horizontal THEN [r EXCEPT !.w = c] ELSE [r EXCEPT !.h = c]
             r2 == advance(r, horizontal, c)
             out2 == Append(out, [id |-> it.id, weight |-> it.weight, rect |-> rect])
         IN  IF 2 * c <= GridPerUnit
             THEN place(Tail(items), total, horizontal, r, out)
             ELSE IF r2.w <= GridPerUnit \/ r2.h <= GridPerUnit
                  THEN out2
                  ELSE place(Tail(items), total, horizontal, r2, out2)

\* the items squarify sorts: those of positive finite weight
kept_items(weights) ==
    SelectSeq(weights, LAMBDA it : gt_zero(it.weight) /\ is_finite(it.weight))

squarify(weights, area) ==
    LET items == sort_by_weight(kept_items(weights))
        total == sum_weights(items)
    IN  IF items = <<>> \/ area.w <= 0 \/ area.h <= 0 THEN <<>>
        ELSE IF ~gt_zero(total) \/ ~is_finite(total) THEN <<>>
        ELSE place(items, total.v, area.w >= area.h, area, <<>>)

InitTM ==
    /\ AppInit
    /\ ScanInit("off", ScanFS)
    /\ bt_pc = "off"
    /\ bt_root = <<>>
    /\ bt_files = <<>>
    /\ bt_tree = NoTree
    /\ bt_needle = <<>>
    /\ bt_filter = NoFilter
    /\ bt_counts = <<>>
    /\ srt_pc = "off"
    /\ srt_tree = NoTree
    /\ srt_nodes = <<>>
    /\ srt_key = "Size"
    /\ srt_out = <<>>
    /\ srt_lists = [file_nodes |-> <<>>, filtered_file_nodes |-> <<>>]
    /\ tm_pc = "input"
    /\ tm_weights \in WeightLists
    /\ tm_area \in Areas
    /\ tm_out = <<>>

squarify_call ==
    /\ tm_pc = "input"
    /\ tm_out' = squarify(tm_weights, tm_area)
    /\ tm_pc' = "laid_out"
    /\ UNCHANGED <<scan_vars, bt_vars, app_vars, srt_vars, tm_weights, tm_area>>

(***************************************************************************)
(* Specifications.                                                         *)
(***************************************************************************)
Worker(w) ==
    \/ get_work(w)
    \/ worker_exit(w)
    \/ pause_check(w)
    \/ pause_cancel(w)
    \/ cancel_check(w)
    \/ match_entry(w)
    \/ metadata(w)
    \/ lock_bytes(w)
    \/ load_scanned(w)
    \/ load_discovered(w)
    \/ ok_send_progress(w)
    \/ unlock_bytes(w)
    \/ send_file(w)
    \/ lock_files(w)
    \/ push_file(w)
    \/ err_read_bytes(w)
    \/ err_send_progress(w)

Next ==
    \/ cancel_scan
    \/ pause_or_resume
    \/ \E w \in Workers : Worker(w)
    \/ assemble_and_done

Spec == Init /\ [][Next]_vars

\* the threads are scheduled fairly; the application is free to leave the
\* flags alone
FairSpec ==
    /\ InitFair
    /\ [][Next]_vars
    /\ \A w \in Workers : WF_vars(Worker(w))
    /\ WF_vars(assemble_and_done)

NextBT == build_tree_call \/ search_build \/ dir_counts_call

SpecBT == InitBT /\ [][NextBT]_vars

NextApp ==
    \/ start_scan
    \/ \E g \in 1..MaxScans : scan_report(g) \/ scan_finish(g)
    \/ poll_scan
    \/ set_search
    \/ set_sort
    \/ apply_search
    \/ rebuild_file_cache
    \/ reset_to_initial

SpecApp == InitApp /\ [][NextApp]_vars

\* the application with its cancel button and the scanner threads reading
\* the shared flag
NextCancel ==
    \/ start_scan
    \/ app_cancel_scan
    \/ \E g \in 1..MaxScans : scan_report(g) \/ scan_quit(g) \/ scan_finish(g)
    \/ poll_scan

SpecCancel == InitApp /\ [][NextCancel]_vars

\* the application with the clicks that set and clear node ids
NextUi ==
    \/ start_scan
    \/ \E g \in 1..MaxScans : scan_report(g) \/ scan_finish(g)
    \/ poll_scan
    \/ rebuild_file_cache
    \/ reset_to_initial
    \/ apply_folder_actions
    \/ apply_pie_actions
    \/ delete_selected_clicked
    \/ navigate_up
    \/ set_current_root
    \/ show_delete_confirmation
    \/ show_properties_panel

SpecUi == InitApp /\ [][NextUi]_vars

NextSort == sort_call

SpecSort == InitSort /\ [][NextSort]_vars

NextTM == squarify_call

SpecTM == InitTM /\ [][NextTM]_vars

(***************************************************************************)
(* Reading a tree.                                                         *)
(***************************************************************************)
NodeIds(t) == 0..(Len(t.nodes) - 1)

Node(t, i) == t.nodes[i + 1]

Occurrences(seq, x) == Cardinality({k \in DOMAIN seq : seq[k] = x})

ChildrenOf(t, i) == {Node(t, i).children[k] : k \in DOMAIN Node(t, i).children}

\* the nodes reachable from the set S along children lists
RECURSIVE Reach(_, _)
Reach(t, S) ==
    LET S2 == S \cup UNION {ChildrenOf(t, i) : i \in S \cap NodeIds(t)}
    IN  IF S2 = S THEN S ELSE Reach(t, S2)

Subtree(t, d) == Reach(t, {d})

\* the node reached from i after k parent links, None once past the root
RECURSIVE Climb(_, _, _)
Climb(t, i, k) ==
    IF i \notin NodeIds(t) THEN None
    ELSE IF k = 0 THEN i
    ELSE Climb(t, Node(t, i).parent, k - 1)

RECURSIVE SumSizes(_, _)
SumSizes(t, S) ==
    IF S = {} THEN 0
    ELSE LET i == CHOOSE x \in S : TRUE
         IN  Node(t, i).size + SumSizes(t, S \ {i})

FilesBelow(t, d) == {f \in Subtree(t, d) : Node(t, f).kind = "File"}

\* the File nodes in arena order
FileNodes(t) == SelectSeq(t.nodes, LAMBDA n : n.kind = "File")

\* root has no parent; every other node has a Dir parent listing it exactly
\* once; every node is reachable from the root; the parent chains end
StrictTree(t) ==
    /\ t.root \in NodeIds(t)
    /\ Node(t, t.root).parent = None
    /\ \A i \in NodeIds(t) \ {t.root} :
        /\ Node(t, i).parent \in NodeIds(t)
        /\ Node(t, Node(t, i).parent).kind = "Dir"
        /\ Occurrences(Node(t, Node(t, i).parent).children, i) = 1
    /\ Subtree(t, t.root) = NodeIds(t)
    /\ \A i \in NodeIds(t) : Climb(t, i, Len(t.nodes)) = None

\* every Dir node carries the sum and the number of the File nodes below it,
\* where the sum or the number has not reached its width
Aggregated(t) ==
    \A d \in NodeIds(t) :
        Node(t, d).kind = "Dir" =>
            /\ SumSizes(t, FilesBelow(t, d)) <= SizeMax
                => Node(t, d).size = SumSizes(t, FilesBelow(t, d))
            /\ Cardinality(FilesBelow(t, d)) <= CountMax
                => Node(t, d).file_count = Cardinality(FilesBelow(t, d))

DoneCount == Cardinality({i \in DOMAIN tx : tx[i].type = "Done"})

ProgressAt == {i \in DOMAIN tx : tx[i].type = "Progress"}

\* some message has just been sent, by thread Sender
Sent == Len(tx') = Len(tx) + 1

Sender == tx_src'[Len(tx')].worker

\* worker w holds the mutex whose holder variable is lock
Holds(lock, w) == w \in Workers /\ lock = w

(***************************************************************************)
(* C1: a run of Scanner::scan sends Done once, after every walker worker   *)
(* has finished, and sends nothing after it.                               *)
(***************************************************************************)
C1_DoneOnceAndLast ==
    /\ DoneCount <= 1
    /\ scan_pc = "done" <=> DoneCount = 1
    /\ \A i \in DOMAIN tx :
        tx[i].type = "Done" =>
            /\ i = Len(tx)
            /\ tx_src[i].worker = MainThread
            /\ \A w \in Workers : pc[w] = "finished"

C1_Witness ==
    /\ scan_pc = "done"
    /\ ~quit_now
    /\ Len(tx) = 6
    /\ tx[Len(tx)].type = "Done"

(***************************************************************************)
(* C2: in channel order the scanned, discovered and bytes fields of the    *)
(* Progress messages never decrease, metadata failures included.           *)
(***************************************************************************)
C2_ProgressMonotone ==
    \A i, j \in ProgressAt :
        i < j =>
            /\ tx[i].scanned <= tx[j].scanned
            /\ tx[i].discovered <= tx[j].discovered
            /\ tx[i].bytes <= tx[j].bytes

(***************************************************************************)
(* C3: while cancel is set no visitor call gets past its cancel check: a   *)
(* worker at a check returns Quit, and the Progress and File messages sent *)
(* after the cancel are those of the one entry each worker had already     *)
(* passed the check for.                                                   *)
(***************************************************************************)
C3_CancelStopsNewEntries ==
    [][cancel =>
        /\ started' = started
        /\ \A w \in Workers :
            /\ pc[w] = "pause_check" =>
                 pc'[w] \in {"pause_check", "pause_cancel", "cancel_check"}
            /\ pc[w] \in {"pause_cancel", "cancel_check"} /\ pc'[w] # pc[w] =>
                 pc'[w] = "finished" /\ ret'[w] \in {80, 85}
        /\ Sent /\ tx'[Len(tx')].type \in {"Progress", "File"} =>
            /\ in_flight[Sender] # 0
            /\ tx_src'[Len(tx')].entry = in_flight[Sender]]_vars

C3_Witness ==
    /\ cancel
    /\ cancel_at >= 0
    /\ Len(tx) >= cancel_at + 2
    /\ tx[cancel_at + 1].type = "Progress"
    /\ tx[cancel_at + 2].type = "File"
    /\ \E w \in Workers : ret[w] = 80
    /\ \E w \in Workers : ret[w] = 85

(***************************************************************************)
(* C4: once cancel is set, under fair scheduling every worker stops and    *)
(* Done is sent exactly once, also while paused stays set.                 *)
(***************************************************************************)
C4_CancelLeadsToDone ==
    cancel ~> (WorkersJoined /\ scan_pc = "done" /\ DoneCount = 1)

C4_Witness ==
    /\ cancel
    /\ paused
    /\ scan_pc = "done"
    /\ DoneCount = 1
    /\ \E w \in Workers : ret[w] = 80

(***************************************************************************)
(* C5: a cancelled scan sends no Error message for the cancellation; its   *)
(* Done message carries the tree of exactly the collected (path, size)     *)
(* pairs, a strict tree with aggregated sizes and counts.                  *)
(***************************************************************************)
C5_CancelledScanPartialTree ==
    scan_pc = "done" /\ quit_now =>
        LET t == tx[Len(tx)].tree IN
        /\ \A i \in DOMAIN tx :
            tx[i].type = "Error" =>
                /\ fs[tx_src[i].entry].kind = "err"
                /\ \A j \in DOMAIN tx :
                    tx[j].type = "Error" /\ tx_src[j].entry = tx_src[i].entry
                        => j = i
        /\ t = build_tree(ScanRoot, files)
        /\ Len(FileNodes(t)) = Len(files)
        /\ \A k \in DOMAIN files :
            /\ FileNodes(t)[k].path = files[k].path
            /\ FileNodes(t)[k].size = files[k].size
        /\ {[path |-> tx[i].path, size |-> tx[i].bytes] :
                i \in {j \in DOMAIN tx : tx[j].type = "File"}}
             = {files[k] : k \in DOMAIN files}
        /\ StrictTree(t)
        /\ Aggregated(t)

C5_Witness ==
    /\ scan_pc = "done"
    /\ quit_now
    /\ Len(files) = 1
    /\ Len(tx[Len(tx)].tree.nodes) >= 2
    /\ \E w \in Workers : in_flight[w] # 0

(***************************************************************************)
(* C6: in the tree build_tree returns, every Dir node's size is the sum of *)
(* the sizes of the File nodes of its subtree and its file_count their     *)
(* number (no saturation).                                                 *)
(***************************************************************************)
C6_DirAggregates == bt_pc = "built" => Aggregated(bt_tree)

C6_Witness ==
    /\ bt_pc = "built"
    /\ Len(bt_files) = 3
    /\ \E d \in NodeIds(bt_tree) :
        /\ d # bt_tree.root
        /\ Node(bt_tree, d).kind = "Dir"
        /\ Node(bt_tree, d).file_count = 2
        /\ Node(bt_tree, d).size = 150
        /\ \E c \in ChildrenOf(bt_tree, d) : Node(bt_tree, c).kind = "Dir"
    /\ Node(bt_tree, bt_tree.root).size = 200

(***************************************************************************)
(* C7: the tree build_tree returns is a strict tree: the root has no       *)
(* parent, every other node has a Dir parent whose children contain it     *)
(* exactly once, every node is reachable from the root, no parent cycle.   *)
(***************************************************************************)
C7_StrictTree == bt_pc = "built" => StrictTree(bt_tree)

C7_Witness ==
    /\ bt_pc = "built"
    /\ Len(bt_tree.nodes) = 7
    /\ \E i \in NodeIds(bt_tree) : Climb(bt_tree, i, 3) = bt_tree.root

(***************************************************************************)
(* C8: build_tree of the empty file list is the single root node: a Dir    *)
(* with no parent, no children, size 0 and file_count 0.                   *)
(***************************************************************************)
C8_EmptyListSingleRoot ==
    bt_pc = "built" /\ bt_files = <<>> =>
        /\ Len(bt_tree.nodes) = 1
        /\ bt_tree.root = 0
        /\ Node(bt_tree, 0).kind = "Dir"
        /\ Node(bt_tree, 0).path = bt_root
        /\ Node(bt_tree, 0).parent = None
        /\ Node(bt_tree, 0).children = <<>>
        /\ Node(bt_tree, 0).size = 0
        /\ Node(bt_tree, 0).file_count = 0

C8_Witness == bt_pc = "built" /\ bt_files = <<>> /\ Len(bt_tree.nodes) = 1

(***************************************************************************)
(* C9: build_tree creates one File node per input entry, a leaf with       *)
(* file_count 1 and the entry's size, child of the Dir node of its parent  *)
(* path, with a Dir node for every directory between the root and the      *)
(* file; /root with a.txt (100) and sub/b.txt (50) gives root 150/2 and    *)
(* sub 50/1.                                                               *)
(***************************************************************************)
ExampleFiles ==
    << [path |-> <<"/", "root", "a.txt">>, size |-> 100],
       [path |-> <<"/", "root", "sub", "b.txt">>, size |-> 50] >>

DirNodeAt(t, path) ==
    \E d \in NodeIds(t) : Node(t, d).kind = "Dir" /\ Node(t, d).path = path

C9_FileNodes ==
    bt_pc = "built" =>
        /\ Len(FileNodes(bt_tree)) = Len(bt_files)
        /\ \A k \in DOMAIN bt_files :
            LET n == FileNodes(bt_tree)[k] IN
            /\ n.path = bt_files[k].path
            /\ n.size = bt_files[k].size
            /\ n.file_count = 1
            /\ n.children = <<>>
            /\ n.parent \in NodeIds(bt_tree)
            /\ Node(bt_tree, n.parent).kind = "Dir"
            /\ Node(bt_tree, n.parent).path = Parent(n.path)
            /\ Occurrences(Node(bt_tree, n.parent).children, n.id) = 1
            /\ \A len \in Len(bt_root)..(Len(n.path) - 1) :
                DirNodeAt(bt_tree, SubSeq(n.path, 1, len))
        /\ bt_root = <<"/", "root">> /\ bt_files = ExampleFiles =>
            /\ Len(bt_tree.nodes) = 4
            /\ Node(bt_tree, 0).size = 150 /\ Node(bt_tree, 0).file_count = 2
            /\ Node(bt_tree, 1).name = "a.txt" /\ Node(bt_tree, 1).size = 100
            /\ Node(bt_tree, 1).kind = "File"
            /\ Node(bt_tree, 2).name = "sub" /\ Node(bt_tree, 2).kind = "Dir"
            /\ Node(bt_tree, 2).size = 50 /\ Node(bt_tree, 2).file_count = 1
            /\ Node(bt_tree, 3).name = "b.txt" /\ Node(bt_tree, 3).size = 50
            /\ Node(bt_tree, 3).kind = "File"

C9_Witness ==
    /\ bt_pc = "built"
    /\ bt_root = <<"/", "root">>
    /\ bt_files = ExampleFiles
    /\ Len(FileNodes(bt_tree)) = 2

(***************************************************************************)
(* C10: no worker sends on the channel while it holds the bytes mutex or   *)
(* the files mutex.                                                        *)
(***************************************************************************)
C10_NoSendUnderLock ==
    [][Sent => ~Holds(bytes_lock, Sender) /\ ~Holds(files_lock, Sender)]_vars

(***************************************************************************)
(* C10 as amended: no worker sends while it holds the files mutex, which   *)
(* is held for the append alone; the bytes mutex is held by a worker from  *)
(* the addition to the Progress send of that file, and the only message    *)
(* sent under it is that Progress message.                                 *)
(***************************************************************************)
C10_OnlyProgressUnderBytesLock ==
    [][/\ Sent =>
            /\ ~Holds(files_lock, Sender)
            /\ Holds(bytes_lock, Sender) =>
                 tx'[Len(tx')].type = "Progress" /\ pc[Sender] = "ok_send"
       /\ \A w \in Workers :
            /\ files_lock' = w => pc'[w] = "push_file"
            /\ bytes_lock' = w =>
                 pc'[w] \in {"ok_load_scanned", "ok_load_discovered",
                             "ok_send", "unlock_bytes"}]_vars

C10_Witness ==
    /\ \E w \in Workers : bytes_lock = w /\ pc[w] = "unlock_bytes"
    /\ \E w \in Workers : files_lock = w
    /\ Len(tx) >= 2

(***************************************************************************)
(* Reading the channel and the walk per entry.                             *)
(***************************************************************************)
\* worker w is past the pause check of its current entry
PastPause(w) == pc[w] \in {"cancel_check"} \cup Processing

\* the positions of the metadata Err arm, lines 111-120
ErrArm == {"err_read_bytes", "err_load_scanned", "err_load_discovered", "err_send"}

\* the positions of the metadata Ok arm, lines 93-110
OkArm == {"lock_bytes", "ok_load_scanned", "ok_load_discovered", "ok_send",
          "unlock_bytes", "send_file", "lock_files", "push_file"}

\* the message sent by the step
Msg == tx'[Len(tx')]

CountersSame == discovered' = discovered /\ scanned' = scanned /\ bytes' = bytes

\* worker w takes a step of the closure
Steps(w) == pc'[w] # pc[w]

\* the messages of type ty sent during the visitor call for entry e
MsgsFor(e, ty) == {i \in DOMAIN tx : tx[i].type = ty /\ tx_src[i].entry = e}

\* the visitor call for entry e passed the cancel check and has returned
Completed(e) == e \in started /\ \A w \in Workers : cur[w] # e

\* the metadata read of entry e failed and its visitor call has returned
MetaFailed(e) == \E i \in DOMAIN tx : tx_src[i].entry = e /\ tx_src[i].at = "err_send"

\* the pairs of the collected list that carry the path of entry e
PairsFor(e) == {k \in DOMAIN files : files[k].path = fs[e].path}

(***************************************************************************)
(* C11: while the pause flag is set and the cancel flag is clear, no       *)
(* worker gets past the pause check, so no worker begins a new entry; a    *)
(* change of a counter or of the collected list, and a Progress, File or   *)
(* Error message, comes only from a worker that was already past the pause *)
(* check of its entry.                                                     *)
(***************************************************************************)
C11_PausedNoNewEntry ==
    [][(paused /\ ~cancel) =>
          /\ \A w \in Workers : ~PastPause(w) => ~(pc'[w] \in {"cancel_check"} \cup Processing)
          /\ (\/ ~CountersSame
              \/ files' # files
              \/ started' # started
              \/ Sent /\ Msg.type \in {"Progress", "File", "Error"})
                => \E w \in Workers :
                      /\ PastPause(w)
                      /\ Steps(w)
                      /\ Sent => Sender = w]_vars

\* the scan is paused, one worker waits in the pause loop and another is
\* still working on the entry it had begun
C11_Witness ==
    /\ paused /\ ~cancel
    /\ \E w \in Workers : pc[w] = "pause_cancel"
    /\ \E v \in Workers : pc[v] \in OkArm
    /\ tx # <<>>

(***************************************************************************)
(* C12: for an entry the walker yields as an error, the worker sends one   *)
(* Error message, changes no counter, appends nothing and returns          *)
(* Continue; the walk goes on, and a scan that was not cancelled has       *)
(* visited every entry when Done is sent.                                  *)
(***************************************************************************)
C12_WalkerErrorContinues ==
    /\ [](\A e \in EntryIds :
            fs[e].kind = "err" =>
                Cardinality(MsgsFor(e, "Error")) = IF Completed(e) THEN 1 ELSE 0)
    /\ [](scan_pc = "done" /\ ~cancel => taken = EntryIds /\ started = EntryIds)
    /\ [][\A w \in Workers :
            (pc[w] = "match_entry" /\ fs[cur[w]].kind = "err" /\ Steps(w)) =>
                /\ Sent /\ Sender = w /\ Msg = Error(fs[cur[w]].path)
                /\ CountersSame
                /\ files' = files
                /\ pc'[w] = "idle"
                /\ quit_now' = quit_now]_vars

\* the scan is over: an Error message was sent and a file was collected
\* after it
C12_Witness ==
    /\ scan_pc = "done"
    /\ \E i, j \in DOMAIN tx : i < j /\ tx[i].type = "Error" /\ tx[j].type = "File"
    /\ Len(files) = 2

(***************************************************************************)
(* C13: every entry whose visitor call met a filesystem error, the         *)
(* walker's error or a failed metadata read, has an Error message on the   *)
(* channel.                                                                *)
(***************************************************************************)
C13_EveryErrorReported ==
    \A e \in EntryIds :
        (Completed(e) /\ (fs[e].kind = "err" \/ MetaFailed(e)))
            => MsgsFor(e, "Error") # {}

(***************************************************************************)
(* C14: a regular file whose metadata read fails is counted once in        *)
(* discovered (line 90) and once in scanned (line 113); the steps of the   *)
(* Err arm leave the byte total and the collected list alone and send one  *)
(* Progress message; no File message and no pair of the collected list     *)
(* carries that file.                                                      *)
(***************************************************************************)
C14_MetadataFailure ==
    /\ [](\A e \in EntryIds :
            MetaFailed(e) =>
                /\ Cardinality(MsgsFor(e, "Progress")) = 1
                /\ MsgsFor(e, "File") = {}
                /\ PairsFor(e) = {})
    /\ [](\A w \in Workers :
            pc[w] \in ErrArm =>
                /\ MsgsFor(cur[w], "Progress") = {}
                /\ MsgsFor(cur[w], "File") = {}
                /\ PairsFor(cur[w]) = {})
    /\ [][\A w \in Workers :
            /\ (pc[w] = "match_entry" /\ pc'[w] = "metadata") =>
                /\ discovered' = discovered + 1
                /\ scanned' = scanned /\ bytes' = bytes /\ files' = files
                /\ ~Sent
            /\ (pc[w] = "metadata" /\ pc'[w] = "err_read_bytes") =>
                /\ scanned' = scanned + 1
                /\ discovered' = discovered /\ bytes' = bytes /\ files' = files
                /\ ~Sent
            /\ (pc[w] \in ErrArm /\ Steps(w)) =>
                /\ CountersSame
                /\ files' = files
                /\ Sent <=> pc[w] = "err_send"
                /\ Sent => Sender = w /\ Msg.type = "Progress"
                /\ pc'[w] \in ErrArm \cup {"idle"}]_vars

\* a metadata read has failed and was reported while another file was
\* collected with its size
C14_Witness ==
    /\ \E e \in EntryIds : MetaFailed(e) /\ Completed(e)
    /\ files # <<>>
    /\ discovered = 2 /\ scanned = 2 /\ bytes > 0

(***************************************************************************)
(* C15: a regular file whose metadata read succeeds is counted once in     *)
(* discovered and once in scanned, its size is added to the byte total,    *)
(* one Progress message and then one File message with its path and size   *)
(* are sent, and one (path, size) pair is appended; a directory entry      *)
(* changes no counter and sends nothing.                                   *)
(***************************************************************************)
C15_FileSuccess ==
    /\ [](\A e \in EntryIds :
            /\ Cardinality(PairsFor(e)) <= 1
            /\ PairsFor(e) # {} =>
                /\ fs[e].kind = "file"
                /\ \A k \in PairsFor(e) : files[k].size = fs[e].size
                /\ Cardinality(MsgsFor(e, "Progress")) = 1
                /\ Cardinality(MsgsFor(e, "File")) = 1
                /\ \A i \in MsgsFor(e, "Progress") : \A j \in MsgsFor(e, "File") :
                      /\ i < j
                      /\ tx_src[i].at = "ok_send"
                      /\ tx[j] = File(fs[e].path, fs[e].size)
            /\ fs[e].kind = "dir" =>
                \A i \in DOMAIN tx : tx_src[i].entry # e)
    /\ [](scan_pc = "done" =>
            /\ discovered = Cardinality({e \in started : fs[e].kind = "file"})
            /\ scanned = discovered
            /\ Len(files) = Cardinality({e \in started : fs[e].kind = "file" /\ ~MetaFailed(e)}))
    /\ [][\A w \in Workers :
            /\ (pc[w] = "metadata" /\ pc'[w] = "lock_bytes") =>
                /\ scanned' = scanned + 1
                /\ discovered' = discovered /\ bytes' = bytes /\ files' = files
                /\ ~Sent
            /\ (pc[w] = "lock_bytes" /\ Steps(w)) =>
                /\ bytes' = IF bytes + fs[cur[w]].size > SizeMax
                            THEN SizeMax ELSE bytes + fs[cur[w]].size
                /\ discovered' = discovered /\ scanned' = scanned /\ files' = files
            /\ (pc[w] \in OkArm \ {"lock_bytes"} /\ Steps(w)) =>
                /\ CountersSame
                /\ files' # files <=> pc[w] = "push_file"
                /\ Sent <=> pc[w] \in {"ok_send", "send_file"}
            /\ (pc[w] = "match_entry" /\ fs[cur[w]].kind = "dir" /\ Steps(w)) =>
                CountersSame /\ files' = files /\ ~Sent]_vars

\* the scan is over: both files were read, counted and collected
C15_Witness ==
    /\ scan_pc = "done"
    /\ Len(files) = 2
    /\ discovered = 2 /\ scanned = 2 /\ bytes = 150

(***************************************************************************)
(* C16 as stated: if the pause flag, whenever set, is later cleared or the *)
(* cancel flag set, the scan sends Done.                                   *)
(***************************************************************************)
C16_DoneIfPauseAlwaysCleared ==
    [](paused => <>(~paused \/ cancel)) => <>(DoneCount = 1)

(***************************************************************************)
(* C16: if from some point on the pause flag stays clear or the cancel     *)
(* flag is set, the scan sends Done.                                       *)
(***************************************************************************)
C16_DoneIfPauseStaysCleared ==
    <>[](~paused \/ cancel) => <>(DoneCount = 1)

\* an uncancelled scan, not paused, has visited every entry and sent Done
C16_Witness ==
    /\ DoneCount = 1
    /\ ~cancel /\ ~paused
    /\ taken = EntryIds
    /\ \A w \in Workers : pc[w] = "finished" /\ ret[w] = 0

(***************************************************************************)
(* C17: for a tree built by build_tree and any needle, SearchFilter::build *)
(* returns two arrays with one flag per node, and the subtree flag of a    *)
(* node is set exactly when its direct flag is set or the subtree flag of  *)
(* one of its children is.                                                 *)
(***************************************************************************)
SubtreeClosed(t, f) ==
    /\ Len(f.direct_matches) = Len(t.nodes)
    /\ Len(f.subtree_matches) = Len(t.nodes)
    /\ \A n \in NodeIds(t) :
        f.subtree_matches[n + 1] <=>
            \/ f.direct_matches[n + 1]
            \/ \E c \in ChildrenOf(t, n) : f.subtree_matches[c + 1]

C17_SubtreeMatches ==
    bt_pc = "searched" => SubtreeClosed(bt_tree, bt_filter)

\* a needle that matches a file two levels below the root and nothing
\* above it: the flags of its ancestors come from the recursion alone
C17_Witness ==
    /\ bt_pc = "searched"
    /\ \E n \in NodeIds(bt_tree) :
        /\ bt_filter.direct_matches[n + 1]
        /\ Node(bt_tree, n).kind = "File"
        /\ Climb(bt_tree, n, 2) = bt_tree.root
        /\ ~bt_filter.direct_matches[Node(bt_tree, n).parent + 1]
        /\ ~bt_filter.direct_matches[bt_tree.root + 1]
        /\ bt_filter.subtree_matches[bt_tree.root + 1]
    /\ \E n \in NodeIds(bt_tree) : ~bt_filter.subtree_matches[n + 1]

(***************************************************************************)
(* Reading the application state.                                          *)
(***************************************************************************)
Range(seq) == {seq[k] : k \in DOMAIN seq}

\* no element occurs twice
Distinct(seq) == \A i, j \in DOMAIN seq : seq[i] = seq[j] => i = j

\* the step runs apply_search, called directly or by rebuild_file_cache
RunsApplySearch == apply_search \/ rebuild_file_cache

(***************************************************************************)
(* C18: when apply_search runs with a tree present and a search text that  *)
(* is empty after trimming, search_filter becomes None and                 *)
(* filtered_file_nodes holds exactly the ids of file_nodes, so it is not   *)
(* empty when file_nodes is not.                                           *)
(***************************************************************************)
C18_BlankSearchShowsAll ==
    [][(tree.some /\ trim(search) = <<>> /\ RunsApplySearch) =>
          /\ search_filter' = NoneOpt
          /\ Range(filtered_file_nodes') = Range(file_nodes')
          /\ Len(filtered_file_nodes') = Len(file_nodes')
          /\ Distinct(filtered_file_nodes')
          /\ file_nodes' # <<>> => filtered_file_nodes' # <<>>]_vars

\* a tree with two files is held, the search box holds white space only,
\* and both files are listed with no filter
C18_Witness ==
    /\ tree.some
    /\ search # <<>> /\ trim(search) = <<>>
    /\ search_filter = NoneOpt
    /\ Len(file_nodes) = 2
    /\ Range(filtered_file_nodes) = Range(file_nodes)

(***************************************************************************)
(* C19: when the filter held was built for the current needle and for a    *)
(* tree of the same node count as the tree held, no step calls             *)
(* SearchFilter::build.                                                    *)
(***************************************************************************)
C19_NoRebuildWhenCurrent ==
    [][(/\ search_filter.some
        /\ tree.some
        /\ built_for.some
        /\ built_for.val.needle = trim(search)
        /\ Len(built_for.val.tree.nodes) = Len(tree.val.nodes))
            => ~rebuilt']_vars

(***************************************************************************)
(* C20: whenever search_filter is present a tree is present, the filter    *)
(* was built from that tree, and both of its arrays have one flag per node *)
(* of that tree.                                                           *)
(***************************************************************************)
C20_FilterOfCurrentTree ==
    search_filter.some =>
        /\ tree.some
        /\ built_for.some
        /\ built_for.val.tree = tree.val
        /\ search_filter.val = SearchFilter_build(built_for.val.needle, tree.val)
        /\ Len(search_filter.val.direct_matches) = Len(tree.val.nodes)
        /\ Len(search_filter.val.subtree_matches) = Len(tree.val.nodes)

\* the tree of a second scan has replaced the tree of the first, of another
\* size, and a filter built from it is held
C20_Witness ==
    /\ search_filter.some
    /\ tree.some
    /\ Len(scans) = 2
    /\ scan_rx = None
    /\ tree.val = build_tree(ScanRoot, scans[2].list)
    /\ Len(scans[1].list) # Len(scans[2].list)
    /\ scans[1].done
    /\ \E n \in NodeIds(tree.val) : search_filter.val.direct_matches[n + 1]

(***************************************************************************)
(* C21: what a sorter returns is a permutation of the sequence it was      *)
(* given, non-increasing in size under Size, non-decreasing in name under  *)
(* Name, non-increasing in file_count under Count; so for sort_node_ids    *)
(* and for the two lists of sort_file_lists.                               *)
(***************************************************************************)
Permutation(x, y) ==
    /\ Len(x) = Len(y)
    /\ \A e \in Range(x) \cup Range(y) : Occurrences(x, e) = Occurrences(y, e)

InKeyOrder(t, key, ids) ==
    \A i, j \in DOMAIN ids :
        i < j =>
            CASE key = "Size"  -> Node(t, ids[i]).size >= Node(t, ids[j]).size
              [] key = "Name"  -> ~str_lt(Chars(Node(t, ids[j]).name),
                                         Chars(Node(t, ids[i]).name))
              [] key = "Count" -> Node(t, ids[i]).file_count >= Node(t, ids[j]).file_count

C21_SortedPermutation ==
    srt_pc = "sorted" =>
        /\ Permutation(srt_nodes, srt_out)
        /\ InKeyOrder(srt_tree, srt_key, srt_out)
        /\ Permutation(srt_nodes, srt_lists.file_nodes)
        /\ InKeyOrder(srt_tree, srt_key, srt_lists.file_nodes)
        /\ Permutation(SelectSeq(srt_nodes,
                           LAMBDA id : Node(srt_tree, id).kind = "File"),
                       srt_lists.filtered_file_nodes)
        /\ InKeyOrder(srt_tree, srt_key, srt_lists.filtered_file_nodes)

\* three nodes of sizes low, high, middle sorted under Size to high, middle,
\* low by both sorters
C21_Witness ==
    /\ srt_pc = "sorted"
    /\ srt_key = "Size"
    /\ Len(srt_nodes) = 3
    /\ Node(srt_tree, srt_nodes[1]).size < Node(srt_tree, srt_nodes[3]).size
    /\ Node(srt_tree, srt_nodes[3]).size < Node(srt_tree, srt_nodes[2]).size
    /\ srt_out = <<srt_nodes[2], srt_nodes[3], srt_nodes[1]>>
    /\ srt_lists.file_nodes = srt_out

(***************************************************************************)
(* C22: after every step that sorts the cached file lists, two ids of a    *)
(* list whose nodes are equal under the current sort key stand in          *)
(* creation order, the lower node id first.                                *)
(***************************************************************************)
EqualUnderKey(t, key, x, y) ==
    CASE key = "Size"  -> Node(t, x).size = Node(t, y).size
      [] key = "Name"  -> Node(t, x).name = Node(t, y).name
      [] key = "Count" -> Node(t, x).file_count = Node(t, y).file_count

TiesInIdOrder(t, key, ids) ==
    \A i, j \in DOMAIN ids :
        (i < j /\ EqualUnderKey(t, key, ids[i], ids[j])) => ids[i] < ids[j]

C22_TiesInCreationOrder ==
    [][(tree.some /\ RunsApplySearch) =>
            /\ TiesInIdOrder(tree.val, sort, file_nodes')
            /\ TiesInIdOrder(tree.val, sort, filtered_file_nodes')]_vars

(***************************************************************************)
(* C23: for every weight list and rectangle given to squarify, every       *)
(* rectangle returned lies inside the rectangle given, no two of them      *)
(* overlap, their areas sum to at most its area, and no more items are     *)
(* returned than were given.                                               *)
(***************************************************************************)
Inside(r, a) ==
    /\ a.x <= r.x /\ r.x + r.w <= a.x + a.w
    /\ a.y <= r.y /\ r.y + r.h <= a.y + a.h

Overlap(r1, r2) ==
    /\ r1.x < r2.x + r2.w /\ r2.x < r1.x + r1.w
    /\ r1.y < r2.y + r2.h /\ r2.y < r1.y + r1.h

RECURSIVE SumAreas(_)
SumAreas(items) ==
    IF items = <<>> THEN 0
    ELSE Head(items).rect.w * Head(items).rect.h + SumAreas(Tail(items))

\* the area of a rectangle, none where an extent is not positive
RectArea(r) == IF r.w <= 0 \/ r.h <= 0 THEN 0 ELSE r.w * r.h

RECURSIVE WeightFrom(_, _)
WeightFrom(items, k) ==
    IF k > Len(items) THEN 0 ELSE items[k].weight.v + WeightFrom(items, k + 1)

\* the extent left along the slicing axis when the slice at rect was cut
RemainingAt(rect, area) ==
    IF area.w >= area.h
    THEN area.w - (rect.x - area.x)
    ELSE area.h - (rect.y - area.y)

SliceOf(rect, area) == IF area.w >= area.h THEN rect.w ELSE rect.h

C24_SliceOfRemainingWeight ==
    tm_pc = "laid_out" =>
        LET items == sort_by_weight(kept_items(tm_weights))
        IN  \A k \in DOMAIN tm_out :
                \* no item was discarded before this one
                tm_out[k].id = items[k].id =>
                    /\ k > 1 => tm_out[k - 1].weight.v >= tm_out[k].weight.v
                    /\ SliceOf(tm_out[k].rect, tm_area) =
                          round_div(RemainingAt(tm_out[k].rect, tm_area)
                                        * tm_out[k].weight.v,
                                    WeightFrom(items, k))

(***************************************************************************)
(* C25: through every sequence of start_scan, poll_scan and                *)
(* reset_to_initial, a tree held by the application is the complete tree   *)
(* of a finished scan, the one its Done message carried: the tree of the   *)
(* whole file list of the scan started last, with one File node for each   *)
(* file of the list.  No partly built tree is ever held.                   *)
(***************************************************************************)
C25_OnlyCompleteTrees ==
    tree.some =>
        /\ scans # <<>>
        /\ scan_rx = None
        /\ LET g == Len(scans)
           IN  /\ scans[g].done
               /\ scans[g].k = Len(scans[g].list)
               /\ tree.val = build_tree(ScanRoot, scans[g].list)
               /\ Len(FileNodes(tree.val)) = Len(scans[g].list)
               /\ StrictTree(tree.val)

\* the second scan's tree of two files is held, the first scan having
\* collected one file
C25_Witness ==
    /\ tree.some
    /\ Len(scans) = 2
    /\ Len(scans[1].list) = 1
    /\ Len(scans[2].list) = 2
    /\ Len(FileNodes(tree.val)) = 2

(***************************************************************************)
(* C26: in the tree build_tree returns no two Dir nodes have the same      *)
(* path, whatever the file list and the order of its files.                *)
(***************************************************************************)
DirIds(t) == {i \in NodeIds(t) : Node(t, i).kind = "Dir"}

C26_DirsCreatedOnce ==
    bt_pc = "built" =>
        \A i, j \in DirIds(bt_tree) :
            Node(bt_tree, i).path = Node(bt_tree, j).path => i = j

\* a file two levels below the root, one in the directory above it and
\* another beside the first: each of the three directories present once
C26_Witness ==
    /\ bt_pc = "built"
    /\ Len(bt_files) = 3
    /\ Len(bt_files[1].path) = Len(bt_root) + 3
    /\ bt_files[2].path = Parent(Parent(bt_files[1].path)) \o <<"b.txt">>
    /\ Parent(bt_files[3].path) = Parent(bt_files[1].path)
    /\ Cardinality(DirIds(bt_tree)) = 3

(***************************************************************************)
(* C27: in the tree build_tree returns the node at arena index i has id i, *)
(* the root has id 0, and tree.root is 0.                                  *)
(***************************************************************************)
C27_IdsAreIndices ==
    bt_pc = "built" =>
        /\ \A i \in NodeIds(bt_tree) : Node(bt_tree, i).id = i
        /\ bt_tree.root = 0
        /\ bt_tree.nodes # <<>>
        /\ Node(bt_tree, 0).path = bt_root
        /\ Node(bt_tree, 0).parent = None

\* directories and files created in turn: a file node between two Dir nodes
C27_Witness ==
    /\ bt_pc = "built"
    /\ \E i, j, k \in NodeIds(bt_tree) :
        /\ i < j /\ j < k
        /\ Node(bt_tree, i).kind = "Dir" /\ Node(bt_tree, i).id = i
        /\ Node(bt_tree, j).kind = "File" /\ Node(bt_tree, j).id = j
        /\ Node(bt_tree, k).kind = "Dir" /\ Node(bt_tree, k).id = k

(***************************************************************************)
(* C28: the sums of build_tree and the byte total of the workers saturate: *)
(* every Dir node's size is the sum of the file sizes below it, or SizeMax *)
(* where the sum is larger, its file_count their number, or CountMax where *)
(* the number is larger, and the byte total over the list is the sum of    *)
(* its sizes, or SizeMax where the sum is larger.                          *)
(***************************************************************************)
Min(x, y) == IF x <= y THEN x ELSE y

RECURSIVE SumOfSizes(_)
SumOfSizes(list) ==
    IF list = <<>> THEN 0 ELSE Head(list).size + SumOfSizes(Tail(list))

C28_Saturation ==
    bt_pc = "built" =>
        /\ \A d \in DirIds(bt_tree) :
            /\ Node(bt_tree, d).size =
                    Min(SumSizes(bt_tree, FilesBelow(bt_tree, d)), SizeMax)
            /\ Node(bt_tree, d).file_count =
                    Min(Cardinality(FilesBelow(bt_tree, d)), CountMax)
        /\ total_bytes(bt_files, Len(bt_files)) = Min(SumOfSizes(bt_files), SizeMax)

\* the sizes below the root exceed SizeMax and the files CountMax
C28_Witness ==
    /\ bt_pc = "built"
    /\ SumSizes(bt_tree, FilesBelow(bt_tree, bt_tree.root)) > SizeMax
    /\ Node(bt_tree, bt_tree.root).size = SizeMax
    /\ Cardinality(FilesBelow(bt_tree, bt_tree.root)) > CountMax
    /\ Node(bt_tree, bt_tree.root).file_count = CountMax
    /\ total_bytes(bt_files, Len(bt_files)) = SizeMax
    /\ \E d \in DirIds(bt_tree) : Node(bt_tree, d).size < SizeMax

(***************************************************************************)
(* C29: in every Progress message a worker sends, scanned is at most       *)
(* discovered.                                                             *)
(***************************************************************************)
C29_ScannedAtMostDiscovered ==
    \A i \in ProgressAt : tx[i].scanned <= tx[i].discovered

\* a message that reports one file scanned of two discovered, and a later
\* one that reports both scanned
C29_Witness ==
    \E i, j \in ProgressAt :
        /\ i < j
        /\ tx[i].scanned = 1 /\ tx[i].discovered = 2
        /\ tx[j].scanned = 2 /\ tx[j].discovered = 2

(***************************************************************************)
(* C30: when Done is sent every worker has finished, and the tree of the   *)
(* Done message has exactly one File node for each File message of the     *)
(* scan: the root's file_count is the number of File messages and the      *)
(* root's size the sum of their bytes, in a cancelled scan as in a         *)
(* complete one.                                                           *)
(***************************************************************************)
FileMsgs == {i \in DOMAIN tx : tx[i].type = "File"}

RECURSIVE SumBytes(_)
SumBytes(S) ==
    IF S = {} THEN 0
    ELSE LET i == CHOOSE x \in S : TRUE
         IN  tx[i].bytes + SumBytes(S \ {i})

C30_OneFileNodePerFileMessage ==
    scan_pc = "done" =>
        LET t == tx[Len(tx)].tree IN
        /\ \A w \in Workers : pc[w] = "finished"
        /\ tx[Len(tx)].type = "Done"
        /\ Len(FileNodes(t)) = Cardinality(FileMsgs)
        /\ \A i \in FileMsgs :
            Cardinality({n \in NodeIds(t) : /\ Node(t, n).kind = "File"
                                            /\ Node(t, n).path = tx[i].path
                                            /\ Node(t, n).size = tx[i].bytes}) = 1
        /\ Node(t, t.root).file_count = Cardinality(FileMsgs)
        /\ Node(t, t.root).size = SumBytes(FileMsgs)

\* a cancelled scan that sent one File message of the two files there are
C30_Witness ==
    /\ scan_pc = "done"
    /\ cancel
    /\ Cardinality(FileMsgs) = 1
    /\ Node(tx[Len(tx)].tree, 0).file_count = 1
    /\ Node(tx[Len(tx)].tree, 0).size > 0
    /\ \E e \in EntryIds : fs[e].kind = "file" /\ e \notin taken

(***************************************************************************)
(* C36: in the tree build_tree returns the parent of every node but the    *)
(* root has a smaller id than the node.                                    *)
(***************************************************************************)
C36_ParentBeforeChild ==
    bt_pc = "built" =>
        \A i \in NodeIds(bt_tree) \ {bt_tree.root} :
            /\ Node(bt_tree, i).parent >= 0
            /\ Node(bt_tree, i).parent < i

\* a directory two levels below the root created through the recursion of
\* ensure_dir, after a file of the root
C36_Witness ==
    /\ bt_pc = "built"
    /\ Len(bt_files) >= 2
    /\ Parent(bt_files[1].path) = bt_root
    /\ Len(bt_files[2].path) = Len(bt_root) + 3
    /\ Node(bt_tree, 2).kind = "Dir" /\ Node(bt_tree, 2).parent = 0
    /\ Node(bt_tree, 3).kind = "Dir" /\ Node(bt_tree, 3).parent = 2
    /\ Node(bt_tree, 4).kind = "File" /\ Node(bt_tree, 4).parent = 3

(***************************************************************************)
(* C37: the tree build_tree returns for a file list and the trees it       *)
(* returns for the permutations of the list hold the same nodes by path,   *)
(* kind, size and file_count under the same parent paths.  Stated for the  *)
(* list with its first two files exchanged and for the list rotated by     *)
(* one, which generate every permutation.                                  *)
(***************************************************************************)
\* the nodes of t by path, each with the path of its parent
Content(t) ==
    {[path |-> Node(t, i).path, kind |-> Node(t, i).kind,
      size |-> Node(t, i).size, file_count |-> Node(t, i).file_count,
      parent |-> IF Node(t, i).parent = None THEN <<"none">>
                 ELSE <<"some", Node(t, Node(t, i).parent).path>>] :
        i \in NodeIds(t)}

SwapFirstTwo(list) ==
    IF Len(list) < 2 THEN list
    ELSE <<list[2], list[1]>> \o SubSeq(list, 3, Len(list))

Rotate(list) == IF list = <<>> THEN list ELSE Tail(list) \o <<Head(list)>>

SameContent(t1, t2) == Len(t1.nodes) = Len(t2.nodes) /\ Content(t1) = Content(t2)

C37_OrderIndependent ==
    bt_pc = "built" =>
        /\ SameContent(bt_tree, build_tree(bt_root, SwapFirstTwo(bt_files)))
        /\ SameContent(bt_tree, build_tree(bt_root, Rotate(bt_files)))

\* three files in three directories, one below another, with different
\* sizes, whose rotated list gives the nodes other ids
C37_Witness ==
    /\ bt_pc = "built"
    /\ Len(bt_files) = 3
    /\ Len(bt_files[1].path) = Len(bt_root) + 3
    /\ Len(bt_files[2].path) = Len(bt_root) + 2
    /\ Len(bt_files[3].path) = Len(bt_root) + 1
    /\ bt_files[1].size # bt_files[2].size
    /\ build_tree(bt_root, Rotate(bt_files)) # bt_tree

(***************************************************************************)
(* C38: for the tree build_tree returns, compute_dir_counts gives each Dir *)
(* node the number of Dir nodes among its proper descendants and each File *)
(* node 0.                                                                 *)
(***************************************************************************)
DirsBelow(t, d) == {i \in Subtree(t, d) \ {d} : Node(t, i).kind = "Dir"}

C38_DirCounts ==
    bt_pc = "counted" =>
        /\ Len(bt_counts) = Len(bt_tree.nodes)
        /\ \A i \in NodeIds(bt_tree) :
            bt_counts[i + 1] = IF Node(bt_tree, i).kind = "Dir"
                               THEN Cardinality(DirsBelow(bt_tree, i))
                               ELSE 0

\* a root with two directories below it, one inside the other, and another
\* beside them
C38_Witness ==
    /\ bt_pc = "counted"
    /\ bt_counts[1] = 3
    /\ \E i \in NodeIds(bt_tree) : bt_counts[i + 1] = 1
    /\ \E i \in NodeIds(bt_tree) : Node(bt_tree, i).kind = "File" /\ bt_counts[i + 1] = 0

(***************************************************************************)
(* C31: once Done is sent, the last Progress message before it carries the *)
(* final totals: scanned is the number of files counted as scanned,        *)
(* discovered the number discovered, bytes the final byte total.           *)
(***************************************************************************)
LastProgress == CHOOSE i \in ProgressAt : \A j \in ProgressAt : j <= i

C31_LastProgressIsFinal ==
    (scan_pc = "done" /\ ProgressAt # {}) =>
        /\ tx[LastProgress].scanned = scanned
        /\ tx[LastProgress].discovered = discovered
        /\ tx[LastProgress].bytes = bytes

\* the Progress and File messages of the first k files of list
RECURSIVE reports(_, _)
reports(list, k) ==
    IF k = 0 THEN <<>>
    ELSE reports(list, k - 1)
           \o <<Progress(k, k, total_bytes(list, k)),
                File(list[k].path, list[k].size)>>

\* what the thread of scan g has sent so far
SentBy(g) ==
    reports(scans[g].list, scans[g].k)
      \o IF scans[g].done THEN <<Done(build_tree(ScanRoot, scans[g].list))>>
         ELSE <<>>

IsSuffix(q, s) ==
    /\ Len(q) <= Len(s)
    /\ q = SubSeq(s, Len(s) - Len(q) + 1, Len(s))

(***************************************************************************)
(* C33: after any sequence of start_scan and poll_scan, what the consumer  *)
(* holds comes from the scan started last only: the receiver is that       *)
(* scan's, the queued messages are the tail of what that scan has sent,    *)
(* the progress totals shown are those of one of its Progress messages     *)
(* and the tree installed is the tree of its Done message; no message of   *)
(* a superseded scan reaches the consumer.                                 *)
(***************************************************************************)
C33_OnlyLatestScan ==
    LET g == Len(scans) IN
    /\ scan_rx # None => scan_rx = g
    /\ rx_queue # <<>> => scan_rx # None /\ IsSuffix(rx_queue, SentBy(g))
    /\ IF progress_files = 0
       THEN progress_discovered = 0 /\ progress_bytes = 0
       ELSE /\ g >= 1
            /\ \E k \in 1..scans[g].k :
                /\ progress_files = k
                /\ progress_discovered = k
                /\ progress_bytes = total_bytes(scans[g].list, k)
    /\ tree.some =>
        /\ g >= 1
        /\ scans[g].done
        /\ tree.val = build_tree(ScanRoot, scans[g].list)

\* the first scan sent all its messages, a second scan of another list was
\* started and its totals and tree are shown
C33_Witness ==
    /\ Len(scans) = 2
    /\ scans[1].done
    /\ scans[1].list = <<ScanFileA>>
    /\ scans[2].list = <<ScanFileB>>
    /\ tree.some
    /\ progress_bytes = 50

(***************************************************************************)
(* C32: a cancellation issued by cancel_scan is never lost: a scan that    *)
(* was running when cancel_scan was called starts no new entry afterwards, *)
(* also when start_scan is called before its workers have read the flag.   *)
(***************************************************************************)
C32_CancelNotLost ==
    [][\A g \in DOMAIN scans :
         scans[g].cancelled => scans'[g].k = scans[g].k]_vars

\* the node ids the application state holds
StoredIds ==
    ({current_dir, selected, pending_delete, pending_properties} \ {None})
      \cup {file_nodes[k] : k \in DOMAIN file_nodes}
      \cup {filtered_file_nodes[k] : k \in DOMAIN filtered_file_nodes}

(***************************************************************************)
(* C34: after any sequence of scans, selections, navigation, delete and    *)
(* properties requests and resets, every NodeId the application state      *)
(* holds indexes a node of the tree that is held, and no id is held when   *)
(* no tree is: no id outlives the tree that produced it.                   *)
(***************************************************************************)
C34_IdsInsideTheirTree ==
    /\ tree.some => StoredIds \subseteq NodeIds(tree.val)
    /\ ~tree.some => StoredIds = {}

(***************************************************************************)
(* C35: when a delete is confirmed, the path removed is the path of the    *)
(* node the confirmation dialog shows, the node of pending_delete,         *)
(* whatever requests and selection changes came before.                    *)
(***************************************************************************)
C35_RemovedIsShown ==
    [][Len(removed') > Len(removed) =>
         /\ pending_delete # None
         /\ tree.some
         /\ removed'[Len(removed')] = Node(tree.val, pending_delete).path]_vars

====
